---- MODULE Spec2Model ----
(***************************************************************************)
(* Model of the Gherkin parser (GherkinDSLParser.parse_feature) and of the *)
(* free-text column extraction (DBTTestGenerator._extract_all_columns) of  *)
(* LLM_powered_DBT.                                                        *)
(*                                                                         *)
(* A Python str is modelled as a sequence of one-character strings, so     *)
(* that strip, startswith, replace, split, isidentifier and lower are      *)
(* computed character by character as the interpreter computes them.       *)
(***************************************************************************)
EXTENDS Naturals, Sequences, FiniteSets

VARIABLES
    feature_text,      \* the argument of parse_feature
    pc,                \* position of the running call: idle, loop, done
    lines,             \* feature_text.strip().split('\n')
    i,                 \* index in lines of the line the for loop is at
    feature,           \* the local dict feature {name, description, scenarios}
    current_scenario,  \* the local current_scenario: None or one scenario dict
    returned,          \* the features returned by the calls made so far
    calls_left,        \* the calls of parse_feature the caller has yet to make
    columns,           \* the list returned by _extract_all_columns
    col_names,         \* the argument columns of detect_key_columns
    key_info,          \* the dict returned by detect_key_columns
    tests_config,      \* the column entries built by generate_schema_tests
    model_sql,         \* the argument of extract_columns_from_model
    sql_columns,       \* the list returned by extract_columns_from_model
    schema_yml,        \* the column entries written by generate_dbt_schema_test
    sql_test,          \* the sections written by generate_dbt_singular_test
    dsl_schema,        \* tests and column entries of generate_schema_tests (gherkin dsl)
    cov_schema,        \* tests and column entries of generate_schema_tests (coverage)
    threads,           \* the locals of every caller running parse_feature concurrently
    executor,          \* DBTTestExecutor.run_tests: position, commands issued, results
    session,           \* st.session_state of app.py
    unit_coverage,     \* the dict returned by generate_unit_test_with_coverage
    report,            \* the coverage_report of analyze_coverage
    batch,             \* generate_all_tests: models left, files written, errors printed
    app_scenarios      \* the list returned by parse_gherkin of app.py

\* the state of the parser and of the free-text column extraction
parseVars == <<feature_text, pc, lines, i, feature, current_scenario, returned, calls_left,
               columns>>
\* the state of the inference over column names and model SQL
inferVars == <<col_names, key_info, tests_config, model_sql, sql_columns>>
\* the outputs of the generators that read the Then statements
genVars == <<schema_yml, sql_test, dsl_schema, cov_schema>>

\* the state of the callers, the executor, the UI session and the reports
moreVars == <<threads, executor, session, unit_coverage, report, batch, app_scenarios>>

vars == <<parseVars, inferVars, genVars, moreVars>>

(***************************************************************************)
(* Bounds of the model.                                                    *)
(***************************************************************************)
MaxLines == 4
MaxCalls == 2
MaxRepeatLines == 3
MaxLiveLines == 2
MaxColScenarios == 1

(***************************************************************************)
(* Python str operations.                                                  *)
(***************************************************************************)
Whitespace == {" ", "\t", "\n", "\r"}

RECURSIVE LStrip(_)
LStrip(s) ==
    IF s = <<>> THEN <<>>
    ELSE IF Head(s) \in Whitespace THEN LStrip(Tail(s)) ELSE s

RECURSIVE RStrip(_)
RStrip(s) ==
    IF s = <<>> THEN <<>>
    ELSE IF s[Len(s)] \in Whitespace THEN RStrip(SubSeq(s, 1, Len(s) - 1)) ELSE s

\* str.strip()
Strip(s) == RStrip(LStrip(s))

\* str.startswith(prefix)
StartsWith(s, prefix) ==
    /\ Len(s) >= Len(prefix)
    /\ SubSeq(s, 1, Len(prefix)) = prefix

\* str.replace(old, new): every non-overlapping occurrence, left to right
RECURSIVE Replace(_, _, _)
Replace(s, old, new) ==
    IF s = <<>> THEN <<>>
    ELSE IF StartsWith(s, old)
         THEN new \o Replace(SubSeq(s, Len(old) + 1, Len(s)), old, new)
         ELSE <<Head(s)>> \o Replace(Tail(s), old, new)

\* str.split(sep) for a one-character separator: never an empty list
RECURSIVE Split(_, _)
Split(s, sep) ==
    IF \A k \in 1..Len(s) : s[k] # sep THEN <<s>>
    ELSE LET k == CHOOSE k \in 1..Len(s) :
                      /\ s[k] = sep
                      /\ \A j \in 1..(k - 1) : s[j] # sep
         IN <<SubSeq(s, 1, k - 1)>> \o Split(SubSeq(s, k + 1, Len(s)), sep)

\* str.split(): the maximal runs of non-whitespace characters
RECURSIVE SplitWords(_)
SplitWords(s) ==
    LET t == LStrip(s)
    IN IF t = <<>> THEN <<>>
       ELSE LET ends == {k \in 1..Len(t) : t[k] \in Whitespace}
                n == IF ends = {} THEN Len(t)
                     ELSE (CHOOSE k \in ends : \A j \in ends : k <= j) - 1
            IN <<SubSeq(t, 1, n)>> \o SplitWords(SubSeq(t, n + 1, Len(t)))

UpperLetters == <<"A", "B", "C", "D", "E", "F", "G", "H", "I", "J", "K", "L", "M",
                  "N", "O", "P", "Q", "R", "S", "T", "U", "V", "W", "X", "Y", "Z">>
LowerLetters == <<"a", "b", "c", "d", "e", "f", "g", "h", "i", "j", "k", "l", "m",
                  "n", "o", "p", "q", "r", "s", "t", "u", "v", "w", "x", "y", "z">>
Digits == {"0", "1", "2", "3", "4", "5", "6", "7", "8", "9"}
Letters == {UpperLetters[k] : k \in 1..Len(UpperLetters)}
               \cup {LowerLetters[k] : k \in 1..Len(LowerLetters)}

LowerChar(c) ==
    IF \E k \in 1..Len(UpperLetters) : UpperLetters[k] = c
    THEN LowerLetters[CHOOSE k \in 1..Len(UpperLetters) : UpperLetters[k] = c]
    ELSE c

\* str.lower()
Lower(s) == [k \in 1..Len(s) |-> LowerChar(s[k])]

\* str.isidentifier()
IsIdentifier(s) ==
    /\ s # <<>>
    /\ s[1] \in Letters \cup {"_"}
    /\ \A k \in 1..Len(s) : s[k] \in Letters \cup Digits \cup {"_"}

(***************************************************************************)
(* The keywords of parse_feature.                                          *)
(***************************************************************************)
KwFeature == <<"F", "e", "a", "t", "u", "r", "e", ":">>
KwScenario == <<"S", "c", "e", "n", "a", "r", "i", "o", ":">>
KwGiven == <<"G", "i", "v", "e", "n">>
KwWhen == <<"W", "h", "e", "n">>
KwThen == <<"T", "h", "e", "n">>
KwAnd == <<"A", "n", "d">>

\* Python's None, and a local holding an object
None == <<>>
Some(x) == <<x>>
Val(o) == o[1]

(***************************************************************************)
(* parse_feature, one action per branch of the loop body.                  *)
(***************************************************************************)
\* the dict feature as created at the start of a call
NewFeature == [name |-> <<>>, description |-> <<>>, scenarios |-> <<>>]

\* line.replace(keyword, '').strip()
Statement(line, kw) == Strip(Replace(line, kw, <<>>))

\* the dict a "Scenario:" line opens
NewScenario(line) ==
    [name |-> Statement(line, KwScenario), given |-> <<>>, when |-> <<>>, then |-> <<>>]

\* the if/elif chain of the loop body: the branch taken for a stripped line
Branch(line, cs) ==
    IF StartsWith(line, KwFeature) THEN "Feature"
    ELSE IF StartsWith(line, KwScenario) THEN "Scenario"
    ELSE IF StartsWith(line, KwGiven) THEN "Given"
    ELSE IF StartsWith(line, KwAnd) /\ cs # None THEN "And"
    ELSE IF StartsWith(line, KwWhen) THEN "When"
    ELSE IF StartsWith(line, KwThen) THEN "Then"
    ELSE "Other"

\* (variant) the name is set once: a later "Feature:" line is ignored
FeatureNameKeepFirst(name, line) ==
    IF name # <<>> THEN name ELSE Statement(line, KwFeature)

\* feature['name'] after a "Feature:" line
FeatureName(name, line) == Statement(line, KwFeature)

\* (variant) the append without its "if current_scenario:" test
CloseScenarioUnchecked(scenarios, cs) == Append(scenarios, cs)

\* feature['scenarios'] after "if current_scenario: feature['scenarios'].append(...)"
CloseScenario(scenarios, cs) ==
    IF cs # None THEN Append(scenarios, Val(cs)) ELSE scenarios

\* (variant) list.insert(0, stmt) in place of list.append(stmt)
PrependStatement(list, stmt) == <<stmt>> \o list

\* list.append
AppendStatement(list, stmt) == Append(list, stmt)

\* (variant) the chain tested in the order given, when, then
AndTargetGivenFirst(sc) ==
    IF sc.given # <<>> THEN "given"
    ELSE IF sc.when # <<>> THEN "when"
    ELSE IF sc.then # <<>> THEN "then"
    ELSE "none"

\* the list an "And" line continues: then, else when, else given, else none
AndTarget(sc) ==
    IF sc.then # <<>> THEN "then"
    ELSE IF sc.when # <<>> THEN "when"
    ELSE IF sc.given # <<>> THEN "given"
    ELSE "none"

\* current_scenario[key].append(stmt)
AddTo(sc, key, stmt) ==
    CASE key = "given" -> [sc EXCEPT !.given = AppendStatement(@, stmt)]
      [] key = "when" -> [sc EXCEPT !.when = AppendStatement(@, stmt)]
      [] key = "then" -> [sc EXCEPT !.then = AppendStatement(@, stmt)]
      [] OTHER -> sc

\* (variant) a clause line with no scenario open opens an unnamed scenario
AddOrOpen(cs, key, stmt) ==
    IF cs # None THEN Some(AddTo(Val(cs), key, stmt))
    ELSE Some(AddTo([name |-> <<>>, given |-> <<>>, when |-> <<>>, then |-> <<>>],
                    key, stmt))

\* "if current_scenario: current_scenario[key].append(stmt)"
AddIfOpen(cs, key, stmt) ==
    IF cs # None THEN Some(AddTo(Val(cs), key, stmt)) ELSE cs

InLoop == pc = "loop" /\ i <= Len(lines)
Line == Strip(lines[i])

\* (variant) the dict feature is shared by the calls instead of created by each
CallSharingFeature ==
    /\ pc \in {"idle", "done"}
    /\ calls_left > 0
    /\ calls_left' = calls_left - 1
    /\ lines' = Split(Strip(feature_text), "\n")
    /\ current_scenario' = None
    /\ i' = 1
    /\ pc' = "loop"
    /\ UNCHANGED <<feature_text, feature, returned, columns>>
    /\ UNCHANGED inferVars
    /\ UNCHANGED genVars
    /\ UNCHANGED moreVars

\* parse_feature(feature_text) is entered
Call ==
    /\ pc \in {"idle", "done"}
    /\ calls_left > 0
    /\ calls_left' = calls_left - 1
    /\ lines' = Split(Strip(feature_text), "\n")
    /\ feature' = NewFeature
    /\ current_scenario' = None
    /\ i' = 1
    /\ pc' = "loop"
    /\ UNCHANGED <<feature_text, returned, columns>>
    /\ UNCHANGED inferVars
    /\ UNCHANGED genVars
    /\ UNCHANGED moreVars

FeatureLine ==
    /\ InLoop
    /\ Branch(Line, current_scenario) = "Feature"
    /\ feature' = [feature EXCEPT !.name = FeatureName(@, Line)]
    /\ i' = i + 1
    /\ UNCHANGED <<feature_text, pc, lines, current_scenario, returned, calls_left, columns>>
    /\ UNCHANGED inferVars
    /\ UNCHANGED genVars
    /\ UNCHANGED moreVars

ScenarioLine ==
    /\ InLoop
    /\ Branch(Line, current_scenario) = "Scenario"
    /\ feature' = [feature EXCEPT !.scenarios = CloseScenario(@, current_scenario)]
    /\ current_scenario' = Some(NewScenario(Line))
    /\ i' = i + 1
    /\ UNCHANGED <<feature_text, pc, lines, returned, calls_left, columns>>
    /\ UNCHANGED inferVars
    /\ UNCHANGED genVars
    /\ UNCHANGED moreVars

GivenLine ==
    /\ InLoop
    /\ Branch(Line, current_scenario) = "Given"
    /\ current_scenario' = AddIfOpen(current_scenario, "given", Statement(Line, KwGiven))
    /\ i' = i + 1
    /\ UNCHANGED <<feature_text, pc, lines, feature, returned, calls_left, columns>>
    /\ UNCHANGED inferVars
    /\ UNCHANGED genVars
    /\ UNCHANGED moreVars

AndLine ==
    /\ InLoop
    /\ Branch(Line, current_scenario) = "And"
    /\ current_scenario' =
           Some(AddTo(Val(current_scenario), AndTarget(Val(current_scenario)),
                      Statement(Line, KwAnd)))
    /\ i' = i + 1
    /\ UNCHANGED <<feature_text, pc, lines, feature, returned, calls_left, columns>>
    /\ UNCHANGED inferVars
    /\ UNCHANGED genVars
    /\ UNCHANGED moreVars

WhenLine ==
    /\ InLoop
    /\ Branch(Line, current_scenario) = "When"
    /\ current_scenario' = AddIfOpen(current_scenario, "when", Statement(Line, KwWhen))
    /\ i' = i + 1
    /\ UNCHANGED <<feature_text, pc, lines, feature, returned, calls_left, columns>>
    /\ UNCHANGED inferVars
    /\ UNCHANGED genVars
    /\ UNCHANGED moreVars

ThenLine ==
    /\ InLoop
    /\ Branch(Line, current_scenario) = "Then"
    /\ current_scenario' = AddIfOpen(current_scenario, "then", Statement(Line, KwThen))
    /\ i' = i + 1
    /\ UNCHANGED <<feature_text, pc, lines, feature, returned, calls_left, columns>>
    /\ UNCHANGED inferVars
    /\ UNCHANGED genVars
    /\ UNCHANGED moreVars

\* no branch of the chain is taken: the line is skipped
OtherLine ==
    /\ InLoop
    /\ Branch(Line, current_scenario) = "Other"
    /\ i' = i + 1
    /\ UNCHANGED <<feature_text, pc, lines, feature, current_scenario, returned, calls_left, columns>>
    /\ UNCHANGED inferVars
    /\ UNCHANGED genVars
    /\ UNCHANGED moreVars

\* (variant) the feature is returned without the final append
EndOfInputWithoutAppend ==
    /\ pc = "loop"
    /\ i > Len(lines)
    /\ returned' = Append(returned, feature)
    /\ pc' = "done"
    /\ UNCHANGED <<feature_text, lines, i, feature, current_scenario, calls_left, columns>>
    /\ UNCHANGED inferVars
    /\ UNCHANGED genVars
    /\ UNCHANGED moreVars

\* after the loop: the open scenario is appended and feature is returned
EndOfInput ==
    /\ pc = "loop"
    /\ i > Len(lines)
    /\ feature' = [feature EXCEPT !.scenarios = CloseScenario(@, current_scenario)]
    /\ returned' = Append(returned, feature')
    /\ pc' = "done"
    /\ UNCHANGED <<feature_text, lines, i, current_scenario, calls_left, columns>>
    /\ UNCHANGED inferVars
    /\ UNCHANGED genVars
    /\ UNCHANGED moreVars

(***************************************************************************)
(* The input texts: up to MaxLines lines joined by newlines.               *)
(***************************************************************************)
InputLines == {
    KwFeature \o <<" ", "F">>,
    KwFeature \o <<" ", "G">>,
    KwScenario \o <<" ", "S">>,
    <<" ">> \o KwScenario \o <<"T">>,
    KwGiven \o <<" ", "a", " ">> \o KwGiven \o <<" ", "b">>,
    KwWhen \o <<" ", "w">>,
    <<"\t">> \o KwThen,
    KwAnd \o <<" ", "x">>,
    <<"#", " ">> \o KwAnd }

RECURSIVE Join(_)
Join(ls) ==
    IF ls = <<>> THEN <<>>
    ELSE IF Len(ls) = 1 THEN ls[1]
    ELSE ls[1] \o <<"\n">> \o Join(Tail(ls))

Texts(n) == {Join(ls) : ls \in UNION {[1..k -> InputLines] : k \in 0..n}}

\* nothing has been inferred yet
\* no caller, executor, session or report is in use
MoreIdle ==
    /\ threads = <<>>
    /\ executor = None
    /\ session = None
    /\ unit_coverage = None
    /\ report = None
    /\ batch = None
    /\ app_scenarios = None

GenIdle ==
    /\ schema_yml = None
    /\ sql_test = None
    /\ dsl_schema = None
    /\ cov_schema = None

InferIdle ==
    /\ GenIdle
    /\ MoreIdle
    /\ col_names = <<>>
    /\ key_info = None
    /\ tests_config = <<>>
    /\ model_sql = <<>>
    /\ sql_columns = <<>>

\* a caller about to call parse_feature calls times on one of texts
StartOn(texts, calls) ==
    /\ InferIdle
    /\ feature_text \in texts
    /\ calls_left = calls
    /\ pc = "idle"
    /\ lines = <<>>
    /\ i = 1
    /\ feature = NewFeature
    /\ current_scenario = None
    /\ returned = <<>>
    /\ columns = <<>>

\* a caller about to call parse_feature calls times on a text of at most n lines
Start(n, calls) == StartOn(Texts(n), calls)

Init == Start(MaxLines, 1)
Next ==
    \/ Call
    \/ FeatureLine
    \/ ScenarioLine
    \/ GivenLine
    \/ AndLine
    \/ WhenLine
    \/ ThenLine
    \/ OtherLine
    \/ EndOfInput

Spec == Init /\ [][Next]_vars

\* the caller parses the same text MaxCalls times
RepeatInit == Start(MaxRepeatLines, MaxCalls)
RepeatSpec == RepeatInit /\ [][Next]_vars

\* the interpreter runs a started call on: no step of it waits for anything
LiveInit == Start(MaxLiveLines, 1)
LiveSpec == LiveInit /\ [][Next]_vars /\ WF_vars(Next)

(***************************************************************************)
(* _extract_all_columns.                                                   *)
(***************************************************************************)
MaxColumns == 5

Range(q) == {q[k] : k \in 1..Len(q)}

\* the lists of qs one after the other
RECURSIVE Concat(_)
Concat(qs) == IF qs = <<>> THEN <<>> ELSE Head(qs) \o Concat(Tail(qs))

\* every clause of every scenario of a feature
AllClauses(f) ==
    UNION {Range(sc.given) \cup Range(sc.when) \cup Range(sc.then) :
               sc \in Range(f.scenarios)}

\* the words that pass "word.isidentifier() and len(word) > 2"
Candidates(f) ==
    {w \in UNION {Range(SplitWords(c)) : c \in AllClauses(f)} :
         IsIdentifier(w) /\ Len(w) > 2}

\* (variant) columns.add(word) without lower()
ColumnSetCaseSensitive(f) == Candidates(f)

\* the set columns after the loops: columns.add(word.lower())
ColumnSet(f) == {Lower(w) : w \in Candidates(f)}

\* list(columns): a set of str is iterated in the order of the hashes of its
\* members, which differs from one interpreter process to the next
RECURSIVE ListOfSet(_)
ListOfSet(S) ==
    IF S = {} THEN {<<>>}
    ELSE UNION {{<<x>> \o q : q \in ListOfSet(S \ {x})} : x \in S}

\* q[:5]
Truncate(q) == SubSeq(q, 1, IF Len(q) < MaxColumns THEN Len(q) ELSE MaxColumns)

\* _extract_all_columns(feature)
ExtractAllColumns ==
    /\ pc = "extract"
    /\ columns' \in {Truncate(q) : q \in ListOfSet(ColumnSet(feature))}
    /\ pc' = "extracted"
    /\ UNCHANGED <<feature_text, lines, i, feature, current_scenario, returned, calls_left>>
    /\ UNCHANGED inferVars
    /\ UNCHANGED genVars
    /\ UNCHANGED moreVars

\* the clauses, clause lists and scenarios the features are built from
ColClauses == {
    <<"a", "b", "c", " ", "A", "b", "c", "\t", "a", "b", " ", " ", "1", "s", "t", " ",
      "o", "r", "d", "_", "i", "d">>,
    <<"a", "m", "t", " ", "q", "t", "y", " ", "a", "-", "b", " ", "s", "k", "u", " ",
      "_", "x", "9">> }
ColClauseLists == {<<>>} \cup {<<c>> : c \in ColClauses}
ColScenarios ==
    {[name |-> <<"S">>, given |-> g, when |-> w, then |-> t] :
         g \in ColClauseLists, w \in ColClauseLists, t \in ColClauseLists}
ColFeatures ==
    {[name |-> <<"F">>, description |-> <<>>, scenarios |-> sc] :
         sc \in UNION {[1..n -> ColScenarios] : n \in 0..MaxColScenarios}}

ColsInit ==
    /\ InferIdle
    /\ feature \in ColFeatures
    /\ pc = "extract"
    /\ feature_text = <<>>
    /\ lines = <<>>
    /\ i = 1
    /\ current_scenario = None
    /\ returned = <<>>
    /\ calls_left = 0
    /\ columns = <<>>

ColsNext == ExtractAllColumns

ColsSpec == ColsInit /\ [][ColsNext]_vars

(***************************************************************************)
(* detect_key_columns and generate_schema_tests of dbt_test_snowflake.py.  *)
(***************************************************************************)
MaxColNames == 2

\* str.endswith(suffix)
EndsWith(s, suffix) ==
    /\ Len(s) >= Len(suffix)
    /\ SubSeq(s, Len(s) - Len(suffix) + 1, Len(s)) = suffix

\* "sub in s"
Contains(s, sub) ==
    \E k \in 1..(Len(s) - Len(sub) + 1) : SubSeq(s, k, k + Len(sub) - 1) = sub

\* re.match(r'^[a-z]+_id$', s): the "$" also matches before a final newline
MatchesLettersId(s) ==
    LET t == IF s # <<>> /\ s[Len(s)] = "\n" THEN SubSeq(s, 1, Len(s) - 1) ELSE s
    IN /\ Len(t) >= 4
       /\ SubSeq(t, Len(t) - 2, Len(t)) = <<"_", "i", "d">>
       /\ \A k \in 1..(Len(t) - 3) : t[k] \in Range(LowerLetters)

DateWords == {
    <<"d", "a", "t", "e">>,
    <<"t", "i", "m", "e", "s", "t", "a", "m", "p">>,
    <<"c", "r", "e", "a", "t", "e", "d">>,
    <<"u", "p", "d", "a", "t", "e", "d">>,
    <<"m", "o", "d", "i", "f", "i", "e", "d">> }
AmountWords == {
    <<"a", "m", "o", "u", "n", "t">>,
    <<"p", "r", "i", "c", "e">>,
    <<"c", "o", "s", "t">>,
    <<"t", "o", "t", "a", "l">>,
    <<"s", "u", "m">>,
    <<"r", "e", "v", "e", "n", "u", "e">> }
StatusWords == {
    <<"s", "t", "a", "t", "u", "s">>,
    <<"s", "t", "a", "t", "e">>,
    <<"t", "y", "p", "e">>,
    <<"c", "a", "t", "e", "g", "o", "r", "y">> }

\* the test of the "# Primary keys" block
IsPrimaryKey(col) ==
    LET c == Lower(col)
    IN /\ \/ c \in {<<"i", "d">>, <<"p", "k">>}
          \/ EndsWith(c, <<"_", "i", "d">>) /\ ~StartsWith(c, <<"f", "k", "_">>)
       /\ \/ c \in {<<"i", "d">>, <<"p", "k">>}
          \/ MatchesLettersId(c)

\* the test of the "# Foreign keys" block
IsForeignKey(col) ==
    LET c == Lower(col)
    IN \/ StartsWith(c, <<"f", "k", "_">>)
       \/ EndsWith(c, <<"_", "i", "d">>) /\ c # <<"i", "d">>

IsDateColumn(col) == \E w \in DateWords : Contains(Lower(col), w)
IsAmountColumn(col) == \E w \in AmountWords : Contains(Lower(col), w)
IsStatusColumn(col) == \E w \in StatusWords : Contains(Lower(col), w)

\* the dict key_info after the loop: five independent if blocks per column
Detected(cols) ==
    [primary_keys |-> SelectSeq(cols, IsPrimaryKey),
     foreign_keys |-> SelectSeq(cols, IsForeignKey),
     date_columns |-> SelectSeq(cols, IsDateColumn),
     amount_columns |-> SelectSeq(cols, IsAmountColumn),
     status_columns |-> SelectSeq(cols, IsStatusColumn)]

\* detect_key_columns(columns)
DetectKeyColumns ==
    /\ pc = "detect"
    /\ key_info' = Detected(col_names)
    /\ pc' = "detected"
    /\ UNCHANGED <<col_names, tests_config, model_sql, sql_columns>>
    /\ UNCHANGED <<feature_text, lines, i, feature, current_scenario, returned, calls_left,
                   columns>>
    /\ UNCHANGED genVars
    /\ UNCHANGED moreVars

\* (variant) the foreign-key bucket tested before the primary-key bucket
RoleForeignKeyFirst(col, ki) ==
    IF col \in Range(ki.foreign_keys) THEN "ForeignKey"
    ELSE IF col \in Range(ki.primary_keys) THEN "PrimaryKey"
    ELSE IF col \in Range(ki.date_columns) THEN "Temporal"
    ELSE IF col \in Range(ki.amount_columns) THEN "Amount"
    ELSE IF col \in Range(ki.status_columns) THEN "Status"
    ELSE "Plain"

\* the if/elif chain of generate_schema_tests: the branch taken for a column
Role(col, ki) ==
    IF col \in Range(ki.primary_keys) THEN "PrimaryKey"
    ELSE IF col \in Range(ki.foreign_keys) THEN "ForeignKey"
    ELSE IF col \in Range(ki.date_columns) THEN "Temporal"
    ELSE IF col \in Range(ki.amount_columns) THEN "Amount"
    ELSE IF col \in Range(ki.status_columns) THEN "Status"
    ELSE "Plain"

NotNull == [test |-> "not_null"]
Unique == [test |-> "unique"]

\* (variant) the amount expression as a hard failure: no severity config
TestsOfBranchAmountError(role, col) ==
    CASE role = "PrimaryKey" -> <<NotNull, Unique>>
      [] role = "ForeignKey" ->
             <<NotNull,
               [test |-> "relationships", to |-> "ref(\"REFERENCE_TABLE\")",
                field |-> "id", severity |-> "warn"]>>
      [] role = "Temporal" -> <<NotNull>>
      [] role = "Amount" ->
             <<NotNull,
               [test |-> "dbt_utils.expression_is_true",
                expression |-> col \o <<" ", ">", "=", " ", "0">>, severity |-> "error"]>>
      [] role = "Status" ->
             <<NotNull,
               [test |-> "accepted_values", values |-> <<"DEFINE_VALID_VALUES">>,
                severity |-> "warn"]>>
      [] OTHER -> <<NotNull>>

\* col_tests['tests'] as filled by the branch taken
TestsOfBranch(role, col) ==
    CASE role = "PrimaryKey" -> <<NotNull, Unique>>
      [] role = "ForeignKey" ->
             <<NotNull,
               [test |-> "relationships", to |-> "ref(\"REFERENCE_TABLE\")",
                field |-> "id", severity |-> "warn"]>>
      [] role = "Temporal" -> <<NotNull>>
      [] role = "Amount" ->
             <<NotNull,
               [test |-> "dbt_utils.expression_is_true",
                expression |-> col \o <<" ", ">", "=", " ", "0">>, severity |-> "warn"]>>
      [] role = "Status" ->
             <<NotNull,
               [test |-> "accepted_values", values |-> <<"DEFINE_VALID_VALUES">>,
                severity |-> "warn"]>>
      [] OTHER -> <<NotNull>>

\* generate_schema_tests(model_name, columns, key_info)
GenerateSchemaTests ==
    /\ pc = "detected"
    /\ tests_config' =
           [k \in 1..Len(col_names) |->
               [name |-> col_names[k],
                tests |-> TestsOfBranch(Role(col_names[k], key_info), col_names[k])]]
    /\ pc' = "generated"
    /\ UNCHANGED <<col_names, key_info, model_sql, sql_columns>>
    /\ UNCHANGED <<feature_text, lines, i, feature, current_scenario, returned, calls_left,
                   columns>>
    /\ UNCHANGED genVars
    /\ UNCHANGED moreVars

\* the column names the models' SELECT lists are drawn from
ColumnNames == {
    <<"c", "u", "s", "t", "o", "m", "e", "r", "_", "i", "d">>,
    <<"f", "k", "_", "c", "u", "s", "t", "o", "m", "e", "r">>,
    <<"c", "r", "e", "a", "t", "e", "d", "_", "a", "t">>,
    <<"o", "r", "d", "e", "r", "_", "a", "m", "o", "u", "n", "t">>,
    <<"s", "t", "a", "t", "u", "s">>,
    <<"d", "e", "s", "c", "r", "i", "p", "t", "i", "o", "n">>,
    <<"e", "v", "e", "n", "t", "_", "t", "i", "m", "e">>,
    <<"q", "u", "a", "n", "t", "i", "t", "y">>,
    <<"i", "t", "e", "m", "_", "v", "a", "l", "u", "e">>,
    <<"I", "D">>,
    <<"o", "r", "d", "e", "r", "_", "i", "t", "e", "m", "_", "i", "d">>,
    <<"U", "p", "d", "a", "t", "e", "d", "_", "T", "o", "t", "a", "l">> }

RolesInit ==
    /\ GenIdle
    /\ MoreIdle
    /\ col_names \in UNION {[1..n -> ColumnNames] : n \in 0..MaxColNames}
    /\ pc = "detect"
    /\ key_info = None
    /\ tests_config = <<>>
    /\ model_sql = <<>>
    /\ sql_columns = <<>>
    /\ feature_text = <<>>
    /\ lines = <<>>
    /\ i = 1
    /\ feature = NewFeature
    /\ current_scenario = None
    /\ returned = <<>>
    /\ calls_left = 0
    /\ columns = <<>>

RolesNext ==
    \/ DetectKeyColumns
    \/ GenerateSchemaTests

RolesSpec == RolesInit /\ [][RolesNext]_vars

(***************************************************************************)
(* CodeCoverageAnalyzer.extract_columns_from_model.                        *)
(***************************************************************************)
MaxSqlItems == 2

\* the length of the run of whitespace that starts at s[k]
RECURSIVE WsRun(_, _)
WsRun(s, k) ==
    IF k <= Len(s) /\ s[k] \in Whitespace THEN 1 + WsRun(s, k + 1) ELSE 0

\* word occurs at s[k], letter case ignored
WordAt(s, k, word) ==
    /\ k >= 1
    /\ k + Len(word) - 1 <= Len(s)
    /\ Lower(SubSeq(s, k, k + Len(word) - 1)) = word

KwSelect == <<"s", "e", "l", "e", "c", "t">>
KwFrom == <<"f", "r", "o", "m">>

\* r'\s+from' matches at s[e]: the whole run of whitespace, then from
FromAt(s, e) == WsRun(s, e) >= 1 /\ WordAt(s, e + WsRun(s, e), KwFrom)

\* r'select\s+(.*?)\s+from' tried at s[p] with re.IGNORECASE | re.DOTALL:
\* \s+ takes the longest run that lets the rest match, (.*?) the shortest text
MatchSelectAt(s, p) ==
    LET run == WsRun(s, p + Len(KwSelect))
        start == p + Len(KwSelect) + run
        ends == {e \in start..Len(s) : FromAt(s, e)}
    IN IF ~WordAt(s, p, KwSelect) \/ run = 0
       THEN [ok |-> FALSE]
       ELSE IF ends # {}
       THEN LET e == CHOOSE e \in ends : \A f \in ends : e <= f
            IN [ok |-> TRUE, group |-> SubSeq(s, start, e - 1),
                next |-> e + WsRun(s, e) + Len(KwFrom)]
       ELSE IF run >= 2 /\ WordAt(s, start, KwFrom)
       THEN [ok |-> TRUE, group |-> <<>>, next |-> start + Len(KwFrom)]
       ELSE [ok |-> FALSE]

\* re.findall(select_pattern, model_sql, re.IGNORECASE | re.DOTALL) from s[p] on
RECURSIVE FindAllSelect(_, _)
FindAllSelect(s, p) ==
    IF p > Len(s) THEN <<>>
    ELSE LET m == MatchSelectAt(s, p)
         IN IF m.ok THEN <<m.group>> \o FindAllSelect(s, m.next)
            ELSE FindAllSelect(s, p + 1)

\* re.sub(r'--.*', '', col): "." stops at a newline
RECURSIVE SubLineComments(_)
SubLineComments(s) ==
    IF s = <<>> THEN <<>>
    ELSE IF StartsWith(s, <<"-", "-">>)
         THEN LET nl == {k \in 1..Len(s) : s[k] = "\n"}
              IN IF nl = {} THEN <<>>
                 ELSE SubLineComments(
                          SubSeq(s, CHOOSE k \in nl : \A j \in nl : k <= j, Len(s)))
         ELSE <<Head(s)>> \o SubLineComments(Tail(s))

\* re.sub(r'/\*.*?\*/', '', col, flags=re.DOTALL)
RECURSIVE SubBlockComments(_)
SubBlockComments(s) ==
    IF s = <<>> THEN <<>>
    ELSE LET close == {k \in 3..(Len(s) - 1) : s[k] = "*" /\ s[k + 1] = "/"}
         IN IF StartsWith(s, <<"/", "*">>) /\ close # {}
            THEN SubBlockComments(
                     SubSeq(s, (CHOOSE k \in close : \A j \in close : k <= j) + 2, Len(s)))
            ELSE <<Head(s)>> \o SubBlockComments(Tail(s))

\* the third positional argument of re.sub is count: re.IGNORECASE is passed as
\* count and has the value 2
SubAsCount == 2

\* r'\s+as\s+' matches at s[1]: the length of the match, or 0
AsMatchLen(s) ==
    LET r1 == WsRun(s, 1)
        r2 == WsRun(s, r1 + 3)
    IN IF /\ r1 >= 1
          /\ r1 + 2 <= Len(s)
          /\ SubSeq(s, r1 + 1, r1 + 2) = <<"a", "s">>
          /\ r2 >= 1
       THEN r1 + 2 + r2
       ELSE 0

\* re.sub(r'\s+as\s+', ' ', col, count): letter case is not ignored
RECURSIVE SubAs(_, _)
SubAs(s, count) ==
    IF s = <<>> \/ count = 0 THEN s
    ELSE LET n == AsMatchLen(s)
         IN IF n > 0 THEN <<" ">> \o SubAs(SubSeq(s, n + 1, Len(s)), count - 1)
            ELSE <<Head(s)>> \o SubAs(Tail(s), count)

\* str.strip(chars)
RECURSIVE StripChars(_, _)
StripChars(s, chars) ==
    IF s = <<>> THEN <<>>
    ELSE IF Head(s) \in chars THEN StripChars(Tail(s), chars)
    ELSE IF s[Len(s)] \in chars THEN StripChars(SubSeq(s, 1, Len(s) - 1), chars)
    ELSE s

ReservedWords == {
    <<"f", "r", "o", "m">>,
    <<"w", "h", "e", "r", "e">>,
    <<"g", "r", "o", "u", "p">>,
    <<"o", "r", "d", "e", "r">>,
    <<"h", "a", "v", "i", "n", "g">> }

\* col after the three re.sub calls
CleanItem(col) == SubAs(SubBlockComments(SubLineComments(col)), SubAsCount)

\* (variant) words[-1] without strip('()')
ColNameKeepParens(words) == words[Len(words)]

\* col_name = words[-1].strip('()')
ColName(words) == StripChars(words[Len(words)], {"(", ")"})

\* "if col_name and col_name not in [...]"
KeepsName(name) == name # <<>> /\ name \notin ReservedWords

\* the names appended for one captured projection list
NamesOfGroup(group) ==
    LET cols == Split(group, ",")
        words(k) == SplitWords(Strip(CleanItem(cols[k])))
    IN {ColName(words(k)) :
            k \in {j \in 1..Len(cols) : words(j) # <<>> /\ KeepsName(ColName(words(j)))}}

\* set(columns)
SqlColumnSet(sql) ==
    LET groups == FindAllSelect(sql, 1)
    IN UNION {NamesOfGroup(groups[k]) : k \in 1..Len(groups)}

\* the list columns as the loops leave it: every appended name, in order
ColumnsAppended(sql) ==
    LET groups == FindAllSelect(sql, 1)
        names(group) ==
            LET cols == Split(group, ",")
                words(k) == SplitWords(Strip(CleanItem(cols[k])))
            IN Concat([k \in 1..Len(cols) |->
                          IF words(k) # <<>> /\ KeepsName(ColName(words(k)))
                          THEN <<ColName(words(k))>> ELSE <<>>])
    IN Concat([k \in 1..Len(groups) |-> names(groups[k])])

\* (variant) return columns
SqlResultsWithoutSet(sql) == {ColumnsAppended(sql)}

\* return list(set(columns))
SqlResults(sql) == ListOfSet(SqlColumnSet(sql))

\* extract_columns_from_model(model_sql)
ExtractColumnsFromModel ==
    /\ pc = "sql"
    /\ sql_columns' \in SqlResults(model_sql)
    /\ pc' = "sql_done"
    /\ UNCHANGED <<col_names, key_info, tests_config, model_sql>>
    /\ UNCHANGED <<feature_text, lines, i, feature, current_scenario, returned, calls_left,
                   columns>>
    /\ UNCHANGED genVars
    /\ UNCHANGED moreVars

\* the model SQL texts: a head, up to MaxSqlItems projection items joined by
\* commas, and a tail
SqlHeads == {
    <<"s", "e", "l", "e", "c", "t", " ">>,
    <<"w", "i", "t", "h", " ", "c", " ", "a", "s", " ", "(", "\n", "S", "E", "L", "E",
      "C", "T", "\n", " ", " ">> }
SqlItems == {
    <<"i", "d">>,
    <<" ", "n", "a", "m", "e">>,
    <<" ", "c", "r", "e", "a", "t", "e", "d", "_", "a", "t">>,
    <<" ", "a", ".", "x", " ", "A", "S", " ", "n">>,
    <<" ", "b", " ", "a", "s", " ", "c">>,
    <<" ", "(", "k", ")">>,
    <<" ", "W", "H", "E", "R", "E">>,
    <<"f", "r", "o", "m">>,
    <<" ", "v", " ", "-", "-", " ", "c", "\n">> }
SqlTails == {
    <<" ", "f", "r", "o", "m", " ", "t">>,
    <<"\n", "F", "R", "O", "M", " ", "t", ")", " ", "s", "e", "l", "e", "c", "t", " ",
      " ", "*", " ", "f", "r", "o", "m", " ", "c">> }

RECURSIVE JoinWith(_, _)
JoinWith(qs, sep) ==
    IF qs = <<>> THEN <<>>
    ELSE IF Len(qs) = 1 THEN qs[1]
    ELSE qs[1] \o sep \o JoinWith(Tail(qs), sep)

ExampleSql ==
    <<"s", "e", "l", "e", "c", "t", " ", "i", "d", ",", " ", "n", "a", "m", "e", ",",
      " ", "c", "r", "e", "a", "t", "e", "d", "_", "a", "t", " ", "f", "r", "o", "m",
      " ", "t">>

\* texts without a select...from span
SqlPlainTexts == {
    <<>>,
    <<"c", "r", "e", "a", "t", "e", " ", "t", "a", "b", "l", "e", " ", "t", " ", "(",
      "i", "d", " ", "i", "n", "t", ")">>,
    <<"s", "e", "l", "e", "c", "t", " ", "f", "r", "o", "m", " ", "t">>,
    <<"s", "e", "l", "e", "c", "t", "i", "n", "g", " ", "a", " ", "f", "r", "o", "m",
      " ", "t">>,
    <<"s", "e", "l", "e", "c", "t", " ", "i", "d", ",", " ", "n", "a", "m", "e">>,
    <<"f", "r", "o", "m", " ", "t", " ", "s", "e", "l", "e", "c", "t", " ", "a">> }

SqlTexts ==
    {ExampleSql} \cup SqlPlainTexts \cup
    {h \o JoinWith(its, <<",">>) \o t :
         h \in SqlHeads, t \in SqlTails,
         its \in UNION {[1..n -> SqlItems] : n \in 1..MaxSqlItems}}

SqlInit ==
    /\ GenIdle
    /\ MoreIdle
    /\ model_sql \in SqlTexts
    /\ pc = "sql"
    /\ sql_columns = <<>>
    /\ col_names = <<>>
    /\ key_info = None
    /\ tests_config = <<>>
    /\ feature_text = <<>>
    /\ lines = <<>>
    /\ i = 1
    /\ feature = NewFeature
    /\ current_scenario = None
    /\ returned = <<>>
    /\ calls_left = 0
    /\ columns = <<>>

SqlNext == ExtractColumnsFromModel

SqlSpec == SqlInit /\ [][SqlNext]_vars

(***************************************************************************)
(* The generators that read the Then statements of the parsed scenarios:   *)
(* generate_dbt_schema_test and generate_dbt_singular_test (app.py) and    *)
(* the two generate_schema_tests (gherkin dsl, coverage).                  *)
(***************************************************************************)
MaxThenLines == 2

\* \w and the quote characters of ["\']
WordChars == Letters \cup Digits \cup {"_"}
Quotes == {"\"", "'"}

\* the length of the run of characters of chars that starts at s[k]
RECURSIVE Run(_, _, _)
Run(s, k, chars) ==
    IF k <= Len(s) /\ s[k] \in chars THEN 1 + Run(s, k + 1, chars) ELSE 0

\* kw\s+(chars+) with re.IGNORECASE tried at s[p], with ["\']? before the
\* group when quoted: the group, or None
GroupAfter(s, p, kw, quoted, chars) ==
    LET a == p + Len(kw)
        b == a + WsRun(s, a)
        c == IF quoted /\ b <= Len(s) /\ s[b] \in Quotes THEN b + 1 ELSE b
        n == Run(s, c, chars)
    IN IF WordAt(s, p, kw) /\ b > a /\ n >= 1 THEN Some(SubSeq(s, c, c + n - 1)) ELSE None

\* re.search of (kw1|kw2|...)\s+(chars+): the group of the leftmost match
SearchGroupAfter(s, kws, quoted, chars) ==
    LET hits == {p \in 1..Len(s) : \E kw \in kws : GroupAfter(s, p, kw, quoted, chars) # None}
    IN IF hits = {} THEN None
       ELSE LET p == CHOOSE p \in hits : \A q \in hits : p <= q
                kw == CHOOSE kw \in kws : GroupAfter(s, p, kw, quoted, chars) # None
            IN GroupAfter(s, p, kw, quoted, chars)

\* column[s]?
ColumnPattern == {
    <<"c", "o", "l", "u", "m", "n">>,
    <<"c", "o", "l", "u", "m", "n", "s">> }
\* (?:to|from|in)
RefPattern == {
    <<"t", "o">>,
    <<"f", "r", "o", "m">>,
    <<"i", "n">> }
KwTo == <<"t", "o">>
KwGreaterThan == <<"g", "r", "e", "a", "t", "e", "r", " ", "t", "h", "a", "n">>
KwRow == <<"r", "o", "w">>
\* the substrings looked for in a lower-cased Then statement
KwNotNull == <<"n", "o", "t", " ", "n", "u", "l", "l">>
KwUnique == <<"u", "n", "i", "q", "u", "e">>
KwRelationship == <<"r", "e", "l", "a", "t", "i", "o", "n", "s", "h", "i", "p">>
KwReferences == <<"r", "e", "f", "e", "r", "e", "n", "c", "e", "s">>
KwAcceptedValues == <<"a", "c", "c", "e", "p", "t", "e", "d", "_", "v", "a", "l", "u", "e", "s">>
KwOneOf == <<"o", "n", "e", " ", "o", "f">>
KwShouldBe == <<"s", "h", "o", "u", "l", "d", " ", "b", "e">>
KwRows == <<"r", "o", "w", "s">>
KwNoDuplicates == <<"n", "o", " ", "d", "u", "p", "l", "i", "c", "a", "t", "e", "s">>
KwRelationships == <<"r", "e", "l", "a", "t", "i", "o", "n", "s", "h", "i", "p", "s">>

\* re.search(r'column[s]?\s+(\w+)', then_stmt, re.IGNORECASE)
ColMatch(st) == SearchGroupAfter(st, ColumnPattern, FALSE, WordChars)

\* re.search(r'(?:to|from|in)\s+(\w+)', then_stmt, re.IGNORECASE)
RefMatch(st) == SearchGroupAfter(st, RefPattern, FALSE, WordChars)

\* re.search(r'greater than\s+(\d+)', then_stmt, re.IGNORECASE)
ValMatch(st) == SearchGroupAfter(st, {KwGreaterThan}, FALSE, Digits)

\* re.search(r'(\d+)\s+rows?', then_stmt): letter case is not ignored
CountMatch(st) ==
    LET after(p) == p + Run(st, p, Digits) + WsRun(st, p + Run(st, p, Digits))
        hits == {p \in 1..Len(st) :
                     /\ Run(st, p, Digits) >= 1
                     /\ WsRun(st, p + Run(st, p, Digits)) >= 1
                     /\ after(p) + Len(KwRow) - 1 <= Len(st)
                     /\ SubSeq(st, after(p), after(p) + Len(KwRow) - 1) = KwRow}
    IN IF hits = {} THEN None
       ELSE LET p == CHOOSE p \in hits : \A q \in hits : p <= q
            IN Some(SubSeq(st, p, p + Run(st, p, Digits) - 1))

\* re.findall(r"'([^']+)'", then_stmt) from s[p] on
RECURSIVE FindQuoted(_, _)
FindQuoted(s, p) ==
    IF p > Len(s) THEN <<>>
    ELSE LET close == {q \in (p + 1)..Len(s) : s[q] = "'"}
             q == CHOOSE q \in close : \A r \in close : q <= r
         IN IF s[p] = "'" /\ close # {} /\ q > p + 1
            THEN <<SubSeq(s, p + 1, q - 1)>> \o FindQuoted(s, q + 1)
            ELSE FindQuoted(s, p + 1)

\* one emitted rule: its name and its parameters
Rule(name, arg) == [rule |-> name, arg |-> arg]
\* one "- name: <col> / tests: - <rule>" entry of schema_yml
Entry(col, test) == [name |-> col, test |-> test]

\* the entries one then_stmt adds to schema_yml: four independent ifs
SchemaEntries(st) ==
    LET low == Lower(st)
        col == ColMatch(st)
        ref == RefMatch(st)
    IN (IF Contains(low, KwNotNull) /\ col # None
        THEN <<Entry(Val(col), Rule("not_null", <<>>))>> ELSE <<>>)
       \o (IF Contains(low, KwUnique) /\ col # None
           THEN <<Entry(Val(col), Rule("unique", <<>>))>> ELSE <<>>)
       \o (IF /\ \/ Contains(low, KwRelationship)
                 \/ Contains(low, KwReferences)
              /\ col # None
              /\ ref # None
           THEN <<Entry(Val(col), Rule("relationships", <<Val(ref)>>))>> ELSE <<>>)
       \o (IF /\ \/ Contains(low, KwAcceptedValues)
                 \/ Contains(low, KwOneOf)
              /\ col # None
           THEN <<Entry(Val(col), Rule("accepted_values", FindQuoted(st, 1)))>> ELSE <<>>)

\* generate_dbt_schema_test(scenario, model_name): the entries after the header
SchemaYml(scenario) ==
    Concat([k \in 1..Len(scenario.then) |-> SchemaEntries(scenario.then[k])])

\* f"{col_name} <= {value}"
Condition(col, value) == col \o <<" ", "<", "=", " ">> \o value

\* what one then_stmt adds to sql_test and to conditions: an if/elif chain
SingularStep(st) ==
    LET low == Lower(st)
        col == ColMatch(st)
        nothing == [sections |-> <<>>, conditions |-> <<>>]
    IN IF Contains(low, KwShouldBe) /\ Contains(low, KwRows)
       THEN IF CountMatch(st) # None
            THEN [sections |-> <<Rule("row_count", <<Val(CountMatch(st))>>)>>,
                  conditions |-> <<>>]
            ELSE nothing
       ELSE IF Contains(low, KwGreaterThan)
       THEN IF col # None /\ ValMatch(st) # None
            THEN [sections |-> <<>>,
                  conditions |-> <<Condition(Val(col), Val(ValMatch(st)))>>]
            ELSE nothing
       ELSE IF Contains(low, KwNoDuplicates)
       THEN IF col # None
            THEN [sections |-> <<Rule("no_duplicates", <<Val(col)>>)>>, conditions |-> <<>>]
            ELSE nothing
       ELSE nothing

\* generate_dbt_singular_test(scenario, model_name): the sections after the
\* header, the "Validation checks" section last when conditions is not empty
SqlTest(scenario) ==
    LET steps == [k \in 1..Len(scenario.then) |-> SingularStep(scenario.then[k])]
        conditions == Concat([k \in 1..Len(steps) |-> steps[k].conditions])
    IN Concat([k \in 1..Len(steps) |-> steps[k].sections])
       \o (IF conditions # <<>> THEN <<Rule("validation", conditions)>> ELSE <<>>)

\* _extract_column(text)
ExtractColumn(text) == SearchGroupAfter(text, ColumnPattern, TRUE, WordChars)

\* _extract_reference(text)
ExtractReference(text) == SearchGroupAfter(text, {KwTo}, TRUE, WordChars)

\* _extract_values(text): re.search(r'\[(.*?)\]', text), then every item of the
\* group split on commas, stripped of whitespace and then of quotes
ExtractValues(text) ==
    LET open == {p \in 1..Len(text) :
                     text[p] = "[" /\ \E q \in (p + 1)..Len(text) : text[q] = "]"}
    IN IF open = {} THEN None
       ELSE LET p == CHOOSE p \in open : \A r \in open : p <= r
                close == {q \in (p + 1)..Len(text) : text[q] = "]"}
                q == CHOOSE q \in close : \A r \in close : q <= r
                items == Split(SubSeq(text, p + 1, q - 1), ",")
            IN Some([k \in 1..Len(items) |-> StripChars(Strip(items[k]), Quotes)])

\* the tests one then_clause appends (gherkin dsl): an if/elif chain
DslTests(then_clause) ==
    LET low == Lower(then_clause)
    IN IF Contains(low, KwUnique)
       THEN IF ExtractColumn(then_clause) # None THEN <<Rule("unique", <<>>)>> ELSE <<>>
       ELSE IF Contains(low, KwNotNull)
       THEN IF ExtractColumn(then_clause) # None THEN <<Rule("not_null", <<>>)>> ELSE <<>>
       ELSE IF Contains(low, KwAcceptedValues)
       THEN IF ExtractValues(then_clause) # None
            THEN <<Rule("accepted_values", Val(ExtractValues(then_clause)))>> ELSE <<>>
       ELSE IF Contains(low, KwRelationships)
       THEN IF ExtractReference(then_clause) # None
            THEN <<Rule("relationships", <<Val(ExtractReference(then_clause))>>)>> ELSE <<>>
       ELSE <<>>

\* the tests one then_clause appends (coverage): no column is looked for
CovTests(then_clause) ==
    LET low == Lower(then_clause)
    IN IF Contains(low, KwUnique) THEN <<Rule("unique", <<>>)>>
       ELSE IF Contains(low, KwNotNull) THEN <<Rule("not_null", <<>>)>>
       ELSE <<>>

\* every then clause of every scenario of a feature, in the order of the loops
ThenClauses(f) == Concat([k \in 1..Len(f.scenarios) |-> f.scenarios[k].then])

\* the list tests after the loops (gherkin dsl)
TestsOfDsl(f) == Concat([k \in 1..Len(ThenClauses(f)) |-> DslTests(ThenClauses(f)[k])])

\* the list tests after the loops (coverage)
TestsOfCov(f) == Concat([k \in 1..Len(ThenClauses(f)) |-> CovTests(ThenClauses(f)[k])])

\* tests[:2]
MaxTestsPerColumn == 2
FirstTests(tests) ==
    SubSeq(tests, 1, IF Len(tests) < MaxTestsPerColumn THEN Len(tests) ELSE MaxTestsPerColumn)

\* the schema of generate_schema_tests: every column of _extract_all_columns
\* carries the first two tests
SchemasOf(f, tests) ==
    {[tests |-> tests,
      columns |-> [k \in 1..Len(cols) |-> [name |-> cols[k], tests |-> FirstTests(tests)]]] :
         cols \in {Truncate(q) : q \in ListOfSet(ColumnSet(f))}}

\* the feature the last call of parse_feature returned
Parsed == returned[Len(returned)]

\* app.py, dbt_llm_gherkin_dsl.py and dbt_llm_cov4.py are three programs: a
\* process runs the generators of one of them
OnlyApp == dsl_schema = None /\ cov_schema = None
OnlyDsl == schema_yml = None /\ sql_test = None /\ cov_schema = None
OnlyCov == schema_yml = None /\ sql_test = None /\ dsl_schema = None

\* generate_dbt_schema_test(scenario, model_name) for a parsed scenario
GenerateDbtSchemaTest ==
    /\ pc = "done"
    /\ OnlyApp
    /\ schema_yml = None
    /\ \E k \in 1..Len(Parsed.scenarios) :
           schema_yml' = Some(SchemaYml(Parsed.scenarios[k]))
    /\ UNCHANGED <<sql_test, dsl_schema, cov_schema>>
    /\ UNCHANGED <<parseVars, inferVars, moreVars>>

\* generate_dbt_singular_test(scenario, model_name) for a parsed scenario
GenerateDbtSingularTest ==
    /\ pc = "done"
    /\ OnlyApp
    /\ sql_test = None
    /\ \E k \in 1..Len(Parsed.scenarios) :
           sql_test' = Some(SqlTest(Parsed.scenarios[k]))
    /\ UNCHANGED <<schema_yml, dsl_schema, cov_schema>>
    /\ UNCHANGED <<parseVars, inferVars, moreVars>>

\* DBTTestGenerator.generate_schema_tests(feature, model_name), gherkin dsl
GenerateSchemaTestsDsl ==
    /\ pc = "done"
    /\ OnlyDsl
    /\ dsl_schema = None
    /\ \E schema \in SchemasOf(Parsed, TestsOfDsl(Parsed)) :
           dsl_schema' = Some(schema)
    /\ UNCHANGED <<schema_yml, sql_test, cov_schema>>
    /\ UNCHANGED <<parseVars, inferVars, moreVars>>

\* DBTTestGenerator.generate_schema_tests(feature, model_name), coverage
GenerateSchemaTestsCov ==
    /\ pc = "done"
    /\ OnlyCov
    /\ cov_schema = None
    /\ \E schema \in SchemasOf(Parsed, TestsOfCov(Parsed)) :
           cov_schema' = Some(schema)
    /\ UNCHANGED <<schema_yml, sql_test, dsl_schema>>
    /\ UNCHANGED <<parseVars, inferVars, moreVars>>

\* the texts given to app.py: a feature, a scenario, a Given line and up to
\* MaxThenLines lines of ClauseLines
Header == <<
    <<"F", "e", "a", "t", "u", "r", "e", ":", " ", "X">>,
    <<"S", "c", "e", "n", "a", "r", "i", "o", ":", " ", "S">>,
    <<"G", "i", "v", "e", "n", " ", "a", " ", "t", " ", "w", "i", "t", "h", " ", "i", "d">> >>
ClauseLines == {
    <<"T", "h", "e", "n", " ", "i", "d", " ", "s", "h", "o", "u", "l", "d", " ", "n",
      "o", "t", " ", "b", "e", " ", "n", "u", "l", "l">>,
    <<"A", "n", "d", " ", "i", "d", " ", "s", "h", "o", "u", "l", "d", " ", "b", "e",
      " ", "u", "n", "i", "q", "u", "e">>,
    <<"T", "h", "e", "n", " ", "c", "o", "l", "u", "m", "n", " ", "i", "d", " ", "s",
      "h", "o", "u", "l", "d", " ", "b", "e", " ", "u", "n", "i", "q", "u", "e", " ",
      "a", "n", "d", " ", "n", "o", "t", " ", "n", "u", "l", "l">>,
    <<"T", "h", "e", "n", " ", "c", "o", "l", "u", "m", "n", " ", "a", "m", "t", " ",
      "s", "h", "o", "u", "l", "d", " ", "b", "e", " ", "g", "r", "e", "a", "t", "e",
      "r", " ", "t", "h", "a", "n", " ", "5", " ", "w", "i", "t", "h", " ", "n", "o",
      " ", "d", "u", "p", "l", "i", "c", "a", "t", "e", "s">>,
    <<"T", "h", "e", "n", " ", "i", "t", " ", "s", "h", "o", "u", "l", "d", " ", "b",
      "e", " ", "3", " ", "r", "o", "w", "s", " ", "a", "n", "d", " ", "c", "o", "l",
      "u", "m", "n", " ", "a", "m", "t", " ", "g", "r", "e", "a", "t", "e", "r", " ",
      "t", "h", "a", "n", " ", "2">>,
    <<"T", "h", "e", "n", " ", "c", "o", "l", "u", "m", "n", " ", "s", "t", " ", "i",
      "s", " ", "o", "n", "e", " ", "o", "f", " ", "'", "a", "'", ",", " ", "'", "b",
      "'", " ", "a", "n", "d", " ", "r", "e", "f", "e", "r", "e", "n", "c", "e", "s",
      " ", "t", "o", " ", "o", "r", "d", "e", "r", "s">>,
    <<"W", "h", "e", "n", " ", "w", " ", "r", "u", "n", "s">>,
    <<"n", "o", "t", "e">>,
    <<"T", "h", "e", "n", " ", "c", "o", "l", "u", "m", "n", " ", "c", "i", "d", " ",
      "s", "h", "o", "u", "l", "d", " ", "m", "a", "i", "n", "t", "a", "i", "n", " ",
      "r", "e", "l", "a", "t", "i", "o", "n", "s", "h", "i", "p", " ", "t", "o", " ",
      "c", "u", "s", "t", "o", "m", "e", "r", "s">>,
    <<"T", "h", "e", "n", " ", "c", "o", "l", "u", "m", "n", " ", "c", "i", "d", " ",
      "r", "e", "f", "e", "r", "e", "n", "c", "e", "s", " ", "c", "u", "s", "t", "o",
      "m", "e", "r", "s", " ", "a", "n", "d", " ", "i", "s", " ", "u", "n", "i", "q",
      "u", "e">> }

AppTexts ==
    {Join(Header \o ls) : ls \in UNION {[1..n -> ClauseLines] : n \in 1..MaxThenLines}}

Parsing ==
    \/ Call
    \/ FeatureLine
    \/ ScenarioLine
    \/ GivenLine
    \/ AndLine
    \/ WhenLine
    \/ ThenLine
    \/ OtherLine
    \/ EndOfInput

AppInit == StartOn(AppTexts, 1)
AppNext ==
    \/ Parsing
    \/ GenerateDbtSchemaTest
    \/ GenerateDbtSingularTest
AppSpec == AppInit /\ [][AppNext]_vars

\* the texts taken from parsing to the generated schema by each program
ExampleText ==
    <<"F", "e", "a", "t", "u", "r", "e", ":", " ", "X", "\n", "S", "c", "e", "n", "a",
      "r", "i", "o", ":", " ", "S", "\n", "G", "i", "v", "e", "n", " ", "a", " ", "t",
      " ", "w", "i", "t", "h", " ", "i", "d", "\n", "T", "h", "e", "n", " ", "i", "d",
      " ", "s", "h", "o", "u", "l", "d", " ", "n", "o", "t", " ", "b", "e", " ", "n",
      "u", "l", "l", "\n", "A", "n", "d", " ", "i", "d", " ", "s", "h", "o", "u", "l",
      "d", " ", "b", "e", " ", "u", "n", "i", "q", "u", "e">>
EndToEndTexts == {
    ExampleText,
    <<"F", "e", "a", "t", "u", "r", "e", ":", " ", "X", "\n", "S", "c", "e", "n", "a",
      "r", "i", "o", ":", " ", "S", "\n", "G", "i", "v", "e", "n", " ", "a", " ", "t",
      " ", "w", "i", "t", "h", " ", "i", "d", "\n", "W", "h", "e", "n", " ", "w", "e",
      " ", "g", "o", "\n", "n", "o", "t", "e", "\n", "T", "h", "e", "n", " ", "c", "o",
      "l", "u", "m", "n", " ", "i", "d", " ", "s", "h", "o", "u", "l", "d", " ", "b",
      "e", " ", "u", "n", "i", "q", "u", "e", " ", "a", "n", "d", " ", "n", "o", "t",
      " ", "n", "u", "l", "l">>,
    <<"F", "e", "a", "t", "u", "r", "e", ":", " ", "X", "\n", "S", "c", "e", "n", "a",
      "r", "i", "o", ":", " ", "S", "\n", "G", "i", "v", "e", "n", " ", "a", " ", "t",
      " ", "w", "i", "t", "h", " ", "i", "d", "\n", "T", "h", "e", "n", " ", "s", "t",
      " ", "a", "c", "c", "e", "p", "t", "e", "d", "_", "v", "a", "l", "u", "e", "s",
      " ", "[", "'", "a", "'", ",", " ", "\"", "b", "\"", "]", " ", "r", "e", "l", "a",
      "t", "i", "o", "n", "s", "h", "i", "p", "s", " ", "t", "o", " ", "'", "o", "r",
      "d", "e", "r", "s", "'">> }

EndToEndInit == StartOn(EndToEndTexts, 1)
EndToEndNext ==
    \/ Parsing
    \/ GenerateDbtSchemaTest
    \/ GenerateSchemaTestsDsl
    \/ GenerateSchemaTestsCov
EndToEndSpec == EndToEndInit /\ [][EndToEndNext]_vars

(***************************************************************************)
(* Two callers running parse_feature and _extract_all_columns at the same  *)
(* time: feature, current_scenario, lines and columns are locals of each   *)
(* call.                                                                   *)
(***************************************************************************)
MaxThreadLines == 2

Callers == {"a", "b"}

\* feature and current_scenario after one iteration of the loop body
AfterLine(line, f, cs) ==
    LET b == Branch(line, cs)
    IN [feature |->
            IF b = "Feature" THEN [f EXCEPT !.name = FeatureName(@, line)]
            ELSE IF b = "Scenario" THEN [f EXCEPT !.scenarios = CloseScenario(@, cs)]
            ELSE f,
        current_scenario |->
            IF b = "Scenario" THEN Some(NewScenario(line))
            ELSE IF b = "Given" THEN AddIfOpen(cs, "given", Statement(line, KwGiven))
            ELSE IF b = "And"
            THEN Some(AddTo(Val(cs), AndTarget(Val(cs)), Statement(line, KwAnd)))
            ELSE IF b = "When" THEN AddIfOpen(cs, "when", Statement(line, KwWhen))
            ELSE IF b = "Then" THEN AddIfOpen(cs, "then", Statement(line, KwThen))
            ELSE cs]

\* (variant) current_scenario is one object that every call reads
CurrentScenarioShared(ths, t) == ths[CHOOSE c \in Callers : TRUE].current_scenario

\* the current_scenario a call reads: its own local
CurrentScenarioOf(ths, t) == ths[t].current_scenario

\* caller t enters parse_feature(feature_text)
ThreadCall(t) ==
    /\ threads[t].pc = "idle"
    /\ threads' = [threads EXCEPT ![t] =
           [@ EXCEPT !.lines = Split(Strip(threads[t].text), "\n"),
                     !.feature = NewFeature,
                     !.current_scenario = None,
                     !.i = 1,
                     !.pc = "loop"]]
    /\ UNCHANGED <<parseVars, inferVars, genVars>>
    /\ UNCHANGED <<executor, session, unit_coverage, report, batch, app_scenarios>>

\* caller t runs the loop body for one line
ThreadLine(t) ==
    /\ threads[t].pc = "loop"
    /\ threads[t].i <= Len(threads[t].lines)
    /\ LET after == AfterLine(Strip(threads[t].lines[threads[t].i]), threads[t].feature,
                              CurrentScenarioOf(threads, t))
       IN threads' = [threads EXCEPT ![t] =
              [@ EXCEPT !.feature = after.feature,
                        !.current_scenario = after.current_scenario,
                        !.i = @ + 1]]
    /\ UNCHANGED <<parseVars, inferVars, genVars>>
    /\ UNCHANGED <<executor, session, unit_coverage, report, batch, app_scenarios>>

\* caller t leaves the loop, appends the open scenario and returns feature
ThreadReturn(t) ==
    /\ threads[t].pc = "loop"
    /\ threads[t].i > Len(threads[t].lines)
    /\ LET f == [threads[t].feature EXCEPT
                     !.scenarios = CloseScenario(@, CurrentScenarioOf(threads, t))]
       IN threads' = [threads EXCEPT ![t] =
              [@ EXCEPT !.feature = f, !.result = Some(f), !.pc = "done"]]
    /\ UNCHANGED <<parseVars, inferVars, genVars>>
    /\ UNCHANGED <<executor, session, unit_coverage, report, batch, app_scenarios>>

\* caller t runs _extract_all_columns on the feature it got
ThreadExtract(t) ==
    /\ threads[t].pc = "done"
    /\ \E cols \in {Truncate(q) : q \in ListOfSet(ColumnSet(Val(threads[t].result)))} :
           threads' = [threads EXCEPT ![t] = [@ EXCEPT !.columns = cols, !.pc = "extracted"]]
    /\ UNCHANGED <<parseVars, inferVars, genVars>>
    /\ UNCHANGED <<executor, session, unit_coverage, report, batch, app_scenarios>>

\* the lines the texts of the callers are made of
ThreadLines == {
    <<"F", "e", "a", "t", "u", "r", "e", ":", " ", "F">>,
    <<"S", "c", "e", "n", "a", "r", "i", "o", ":", " ", "S">>,
    <<"G", "i", "v", "e", "n", " ", "a", "b", "c">>,
    <<"A", "n", "d", " ", "x", "y", "z">> }
ThreadTexts == {Join(ls) : ls \in UNION {[1..k -> ThreadLines] : k \in 0..MaxThreadLines}}

\* a caller that has not yet called, with its input
IdleThread(text) ==
    [text |-> text, pc |-> "idle", lines |-> <<>>, i |-> 1, feature |-> NewFeature,
     current_scenario |-> None, result |-> None, columns |-> <<>>]

ThreadsInit ==
    /\ threads \in {[t \in Callers |-> IdleThread(texts[t])] : texts \in [Callers -> ThreadTexts]}
    /\ feature_text = <<>>
    /\ pc = "threads"
    /\ lines = <<>>
    /\ i = 1
    /\ feature = NewFeature
    /\ current_scenario = None
    /\ returned = <<>>
    /\ calls_left = 0
    /\ columns = <<>>
    /\ col_names = <<>>
    /\ key_info = None
    /\ tests_config = <<>>
    /\ model_sql = <<>>
    /\ sql_columns = <<>>
    /\ GenIdle
    /\ executor = None
    /\ session = None
    /\ unit_coverage = None
    /\ report = None
    /\ batch = None
    /\ app_scenarios = None

ThreadsNext ==
    \E t \in Callers :
        \/ ThreadCall(t)
        \/ ThreadLine(t)
        \/ ThreadReturn(t)
        \/ ThreadExtract(t)

ThreadsSpec == ThreadsInit /\ [][ThreadsNext]_vars

(***************************************************************************)
(* DBTTestExecutor.run_tests and run_dbt_command (coverage).               *)
(***************************************************************************)
MaxOutputLines == 2

\* the outcomes of subprocess.run inside run_dbt_command: the command exits
\* with status 0, exits with another status, times out, or cannot be started
Outcomes == {"exit0", "exit1", "timeout", "exception"}

\* the dict run_dbt_command returns
CommandResult(command, outcome, stdout) ==
    [command |-> command,
     returncode |-> IF outcome = "exit0" THEN 0 ELSE IF outcome = "exit1" THEN 1 ELSE 0 - 1,
     stdout |-> IF outcome \in {"exit0", "exit1"} THEN stdout ELSE <<>>,
     success |-> outcome = "exit0"]

\* f'run --select {model_name}' and f'test --select {model_name}'
CmdCompile == <<"c", "o", "m", "p", "i", "l", "e">>
CmdRun(model_name) == <<"r", "u", "n", " ", "-", "-", "s", "e", "l", "e", "c", "t", " ">> \o model_name
CmdTest(model_name) == <<"t", "e", "s", "t", " ", "-", "-", "s", "e", "l", "e", "c", "t", " ">> \o model_name

KwPASS == <<"P", "A", "S", "S">>
KwFAIL == <<"F", "A", "I", "L">>
KwWARN == <<"W", "A", "R", "N">>
KwERROR == <<"E", "R", "R", "O", "R">>
KwTestLower == <<"t", "e", "s", "t">>
KwPassLower == <<"p", "a", "s", "s">>
KwFailLower == <<"f", "a", "i", "l">>

\* the branch of the if/elif chain of parse_test_results a line takes
LineKind(line) ==
    IF Contains(line, KwPASS) THEN "passed"
    ELSE IF Contains(line, KwFAIL) THEN "failed"
    ELSE IF Contains(line, KwWARN) THEN "warning"
    ELSE IF Contains(line, KwERROR) THEN "error"
    ELSE "none"

\* parse_test_results(test_output); pass_rate is kept as the fraction
\* <<passed_tests * 100, total_tests>>
ParseTestResults(test_output) ==
    LET ls == Split(test_output, "\n")
        count(kind) == Cardinality({k \in 1..Len(ls) : LineKind(ls[k]) = kind})
        total == count("passed") + count("failed")
    IN [total_tests |-> total,
        passed_tests |-> count("passed"),
        failed_tests |-> count("failed"),
        warnings |-> count("warning"),
        errors |-> count("error"),
        test_details |->
            Concat([k \in 1..Len(ls) |->
                       IF /\ Contains(Lower(ls[k]), KwTestLower)
                          /\ \/ Contains(Lower(ls[k]), KwPassLower)
                             \/ Contains(Lower(ls[k]), KwFailLower)
                       THEN <<Strip(ls[k])>> ELSE <<>>]),
        pass_rate |-> IF total > 0 THEN <<count("passed") * 100, total>> ELSE <<0, 1>>]

\* the dict results at the start of run_tests
NewResults(model_name) ==
    [model_name |-> model_name, compile |-> None, run |-> None, test |-> None,
     coverage |-> None]

\* (variant) the next step is taken whatever the step before returned
ProceedsAlways(result) == TRUE

\* "if not results[step]['success']: return results" is not taken
Proceeds(result) == result.success

\* Step 1: results['compile'] = self.run_dbt_command('compile')
Compile ==
    /\ executor # None
    /\ executor.pc = "compile"
    /\ \E outcome \in Outcomes :
           LET result == CommandResult(CmdCompile, outcome, <<>>)
           IN executor' = [executor EXCEPT
                  !.issued = Append(@, CmdCompile),
                  !.results = [@ EXCEPT !.compile = Some(result)],
                  !.pc = IF Proceeds(result) THEN "run" ELSE "returned"]
    /\ UNCHANGED <<parseVars, inferVars, genVars>>
    /\ UNCHANGED <<threads, session, unit_coverage, report, batch, app_scenarios>>

\* Step 2: results['run'] = self.run_dbt_command(f'run --select {model_name}')
RunModel ==
    /\ executor # None
    /\ executor.pc = "run"
    /\ \E outcome \in Outcomes :
           LET command == CmdRun(executor.results.model_name)
               result == CommandResult(command, outcome, <<>>)
           IN executor' = [executor EXCEPT
                  !.issued = Append(@, command),
                  !.results = [@ EXCEPT !.run = Some(result)],
                  !.pc = IF Proceeds(result) THEN "test" ELSE "returned"]
    /\ UNCHANGED <<parseVars, inferVars, genVars>>
    /\ UNCHANGED <<threads, session, unit_coverage, report, batch, app_scenarios>>

\* the lines dbt test may print
OutputLines == {
    <<"1", " ", "o", "f", " ", "2", " ", "P", "A", "S", "S", " ", "t", "e", "s", "t", "_", "a">>,
    <<"2", " ", "o", "f", " ", "2", " ", "F", "A", "I", "L", " ", "t", "e", "s", "t", "_", "b">>,
    <<"W", "A", "R", "N", " ", "w">>,
    <<"E", "R", "R", "O", "R", " ", "e">>,
    <<"D", "o", "n", "e", ".">> }
Outputs == {Join(ls) : ls \in UNION {[1..k -> OutputLines] : k \in 0..MaxOutputLines}}

\* Step 3: results['test'] = self.run_dbt_command(f'test --select {model_name}')
\* and results['coverage'] = self.parse_test_results(results['test']['stdout'])
Test ==
    /\ executor # None
    /\ executor.pc = "test"
    /\ \E outcome \in Outcomes, stdout \in Outputs :
           LET command == CmdTest(executor.results.model_name)
               result == CommandResult(command, outcome, stdout)
           IN executor' = [executor EXCEPT
                  !.issued = Append(@, command),
                  !.results = [@ EXCEPT !.test = Some(result),
                                        !.coverage = Some(ParseTestResults(result.stdout))],
                  !.pc = "returned"]
    /\ UNCHANGED <<parseVars, inferVars, genVars>>
    /\ UNCHANGED <<threads, session, unit_coverage, report, batch, app_scenarios>>

ModelNames == {
    <<"m">>,
    <<"o", "r", "d", "e", "r", "s">> }

\* run_tests(model_name) has been entered
ExecInit ==
    /\ \E model_name \in ModelNames :
           executor = [pc |-> "compile", issued |-> <<>>, results |-> NewResults(model_name)]
    /\ feature_text = <<>>
    /\ pc = "run_tests"
    /\ lines = <<>>
    /\ i = 1
    /\ feature = NewFeature
    /\ current_scenario = None
    /\ returned = <<>>
    /\ calls_left = 0
    /\ columns = <<>>
    /\ col_names = <<>>
    /\ key_info = None
    /\ tests_config = <<>>
    /\ model_sql = <<>>
    /\ sql_columns = <<>>
    /\ GenIdle
    /\ threads = <<>>
    /\ session = None
    /\ unit_coverage = None
    /\ report = None
    /\ batch = None
    /\ app_scenarios = None

ExecNext ==
    \/ Compile
    \/ RunModel
    \/ Test

ExecSpec == ExecInit /\ [][ExecNext]_vars

(***************************************************************************)
(* parse_gherkin of app.py.                                                *)
(***************************************************************************)
MaxGherkinLines == 3

\* (variant) a line is skipped when it holds a '#' anywhere
SkippedWithHashAnywhere(line) == line = <<>> \/ Contains(line, <<"#">>)

\* "if not line or line.startswith('#'): continue"
Skipped(line) == line = <<>> \/ StartsWith(line, <<"#">>)

\* the branch of the loop body of parse_gherkin taken for a stripped line
GherkinBranch(line, cs) ==
    IF Skipped(line) THEN "Skip"
    ELSE IF StartsWith(line, KwFeature) THEN "Feature"
    ELSE IF StartsWith(line, KwScenario) THEN "Scenario"
    ELSE IF StartsWith(line, KwGiven) THEN "Given"
    ELSE IF StartsWith(line, KwAnd) /\ cs # None THEN "And"
    ELSE IF StartsWith(line, KwWhen) THEN "When"
    ELSE IF StartsWith(line, KwThen) THEN "Then"
    ELSE "Other"

\* the locals scenarios and current_scenario after one pass of the loop body
GherkinAfterLine(line, scs, cs) ==
    LET b == GherkinBranch(line, cs)
    IN [scenarios |->
            IF b = "Scenario" /\ cs # None THEN Append(scs, Val(cs)) ELSE scs,
        current_scenario |->
            IF b = "Scenario"
            THEN Some([name |-> Strip(Replace(line, KwScenario, <<>>)),
                       given |-> <<>>, when |-> <<>>, then |-> <<>>])
            ELSE IF b = "Given" /\ cs # None
            THEN Some([Val(cs) EXCEPT
                          !.given = Append(@, Strip(Replace(line, KwGiven, <<>>)))])
            ELSE IF b = "And"
            THEN LET stmt == Strip(Replace(line, KwAnd, <<>>))
                 IN IF Val(cs).then # <<>>
                    THEN Some([Val(cs) EXCEPT !.then = Append(@, stmt)])
                    ELSE IF Val(cs).when # <<>>
                    THEN Some([Val(cs) EXCEPT !.when = Append(@, stmt)])
                    ELSE IF Val(cs).given # <<>>
                    THEN Some([Val(cs) EXCEPT !.given = Append(@, stmt)])
                    ELSE cs
            ELSE IF b = "When" /\ cs # None
            THEN Some([Val(cs) EXCEPT
                          !.when = Append(@, Strip(Replace(line, KwWhen, <<>>)))])
            ELSE IF b = "Then" /\ cs # None
            THEN Some([Val(cs) EXCEPT
                          !.then = Append(@, Strip(Replace(line, KwThen, <<>>)))])
            ELSE cs]

\* the for loop of parse_gherkin from line k on, and the code after it
RECURSIVE GherkinFrom(_, _, _, _)
GherkinFrom(ls, k, scs, cs) ==
    IF k > Len(ls) THEN (IF cs # None THEN Append(scs, Val(cs)) ELSE scs)
    ELSE LET after == GherkinAfterLine(Strip(ls[k]), scs, cs)
         IN GherkinFrom(ls, k + 1, after.scenarios, after.current_scenario)

\* parse_gherkin(gherkin_text)
ParseGherkinOf(gherkin_text) == GherkinFrom(Split(Strip(gherkin_text), "\n"), 1, <<>>, None)

\* app.py parses the text parse_feature has returned from
ParseGherkin ==
    /\ pc = "done"
    /\ app_scenarios = None
    /\ app_scenarios' = Some(ParseGherkinOf(feature_text))
    /\ UNCHANGED <<parseVars, inferVars, genVars>>
    /\ UNCHANGED <<threads, executor, session, unit_coverage, report, batch>>

\* the lines of the texts given to both parsers
GherkinLines == InputLines \cup {
    <<>>,
    <<" ", "#">> \o KwScenario \o <<" ", "U">>,
    KwGiven \o <<" ", "c", " ", "#", "1">> }

GherkinTexts ==
    {Join(ls) : ls \in UNION {[1..k -> GherkinLines] : k \in 0..MaxGherkinLines}}

GherkinInit == StartOn(GherkinTexts, 1)
GherkinNext ==
    \/ Parsing
    \/ ParseGherkin
GherkinSpec == GherkinInit /\ [][GherkinNext]_vars

(***************************************************************************)
(* The session of app.py: "Parse & Generate" and "Clear All".              *)
(***************************************************************************)
MaxSessionBlocks == 2

DigitChars == <<"0", "1", "2", "3", "4", "5", "6", "7", "8", "9">>

\* str(n) of a natural number
RECURSIVE Str(_)
Str(n) ==
    IF n < 10 THEN <<DigitChars[n + 1]>>
    ELSE Str(n \div 10) \o <<DigitChars[(n % 10) + 1]>>

\* test_key = f"scenario_{i}"
TestKey(k) == <<"s", "c", "e", "n", "a", "r", "i", "o", "_">> \o Str(k)

KwFilter == <<"f", "i", "l", "t", "e", "r">>
KwWhere == <<"w", "h", "e", "r", "e">>
KwAggregate == <<"a", "g", "g", "r", "e", "g", "a", "t", "e">>
KwGroup == <<"g", "r", "o", "u", "p">>
KwJoin == <<"j", "o", "i", "n">>

\* re.search(r'where\s+(.+)', when_stmt, re.IGNORECASE) on a stripped
\* statement of one line: the rest of the statement after the leftmost
\* "where" that whitespace and one more character follow
WhereMatch(st) ==
    LET rest(p) == p + Len(KwWhere) + WsRun(st, p + Len(KwWhere))
        hits == {p \in 1..Len(st) :
                     /\ WordAt(st, p, KwWhere)
                     /\ WsRun(st, p + Len(KwWhere)) >= 1
                     /\ rest(p) <= Len(st)}
    IN IF hits = {} THEN None
       ELSE Some(SubSeq(st, rest(CHOOSE p \in hits : \A q \in hits : p <= q), Len(st)))

\* re.search(r'join\s+(\w+)', when_stmt, re.IGNORECASE)
JoinMatch(st) == SearchGroupAfter(st, {KwJoin}, FALSE, WordChars)

\* the names one when_stmt appends to transformations
Transformations(st) ==
    LET low == Lower(st)
    IN (IF Contains(low, KwFilter) \/ Contains(low, KwWhere)
        THEN <<"filtered_data">> ELSE <<>>)
       \o (IF Contains(low, KwAggregate) \/ Contains(low, KwGroup)
           THEN <<"aggregated_data">> ELSE <<>>)
       \o (IF Contains(low, KwJoin) /\ JoinMatch(st) # None
           THEN <<"joined_data">> ELSE <<>>)

\* the CTEs one when_stmt adds to model_sql: the name, what it selects from
\* (transformations[-1] after the append) and the condition or joined table
Ctes(st) ==
    LET low == Lower(st)
    IN (IF (Contains(low, KwFilter) \/ Contains(low, KwWhere)) /\ WhereMatch(st) # None
        THEN <<[cte |-> "filtered_data", from |-> "source_data", arg |-> Val(WhereMatch(st))]>>
        ELSE <<>>)
       \o (IF Contains(low, KwAggregate) \/ Contains(low, KwGroup)
           THEN <<[cte |-> "aggregated_data", from |-> "aggregated_data", arg |-> <<>>]>>
           ELSE <<>>)
       \o (IF Contains(low, KwJoin) /\ JoinMatch(st) # None
           THEN <<[cte |-> "joined_data", from |-> "joined_data", arg |-> Val(JoinMatch(st))]>>
           ELSE <<>>)

\* generate_dbt_model(scenario, model_name, source_table): what the text is
\* built from
GenerateDbtModel(scenario, model_name, source_table) ==
    LET transformations == Concat([k \in 1..Len(scenario.when) |->
                                      Transformations(scenario.when[k])])
    IN [model_name |-> model_name,
        scenario |-> scenario.name,
        given |-> JoinWith(scenario.given, <<" ">>),
        source_table |-> source_table,
        ctes |-> Concat([k \in 1..Len(scenario.when) |-> Ctes(scenario.when[k])]),
        final_from |-> IF transformations # <<>>
                       THEN transformations[Len(transformations)] ELSE "source_data"]

\* generate_data_test(scenario, model_name): what the text is built from
GenerateDataTest(scenario, model_name) ==
    [test_name |-> Replace(Lower(scenario.name), <<" ">>, <<"_">>),
     given |-> JoinWith(scenario.given, <<" ">>),
     then |-> JoinWith(scenario.then, <<" ">>)]

\* generate_dbt_schema_test(scenario, model_name): header and column entries
SchemaFile(scenario, model_name) ==
    [name |-> scenario.name, model_name |-> model_name, columns |-> SchemaYml(scenario)]

\* generate_dbt_singular_test(scenario, model_name): header and sections
SingularFile(scenario, model_name) ==
    [name |-> scenario.name, given |-> JoinWith(scenario.given, <<" ">>),
     model_name |-> model_name, sections |-> SqlTest(scenario)]

\* the keys the loop "for i, scenario in enumerate(scenarios)" writes
TestKeys(scs) == {TestKey(k) : k \in 0..(Len(scs) - 1)}
ScenarioOfKey(scs, key) == scs[(CHOOSE k \in 0..(Len(scs) - 1) : TestKey(k) = key) + 1]

\* (variant) nothing parsed: the three entries are emptied
AfterFailedParseCleared(st) ==
    [st EXCEPT !.gherkin_scenarios = <<>>, !.generated_tests = <<>>,
               !.generated_models = <<>>]

\* the else branch of "if scenarios:": only st.error is called
AfterFailedParse(st) == st

\* generated_tests after the loop over enumerate(scenarios)
GeneratedTests(scs, model_name) ==
    [key \in TestKeys(scs) |->
        [schema |-> SchemaFile(ScenarioOfKey(scs, key), model_name),
         singular |-> SingularFile(ScenarioOfKey(scs, key), model_name),
         data_test |-> GenerateDataTest(ScenarioOfKey(scs, key), model_name)]]

\* generated_models after the loop over enumerate(scenarios)
GeneratedModels(scs, model_name, source_table) ==
    [key \in TestKeys(scs) |->
        GenerateDbtModel(ScenarioOfKey(scs, key), model_name, source_table)]

\* the body of "if scenarios:"
AfterParse(st, scs, tests, models) ==
    [st EXCEPT !.gherkin_scenarios = scs, !.generated_tests = tests,
               !.generated_models = models]

\* (variant) "Clear All" leaves generated_models as it is
ClearedKeepingModels(st) ==
    [st EXCEPT !.gherkin_scenarios = <<>>, !.generated_tests = <<>>]

\* the body of the "Clear All" button
Cleared(st) ==
    [st EXCEPT !.gherkin_scenarios = <<>>, !.generated_tests = <<>>,
               !.generated_models = <<>>]

\* the blocks of lines the text area is filled with
SessionBlocks == {
    <<"S", "c", "e", "n", "a", "r", "i", "o", ":", " ", "S", "\n", "G", "i", "v", "e",
      "n", " ", "a", " ", "t", "\n", "W", "h", "e", "n", " ", "f", "i", "l", "t", "e",
      "r", " ", "w", "h", "e", "r", "e", " ", "x", "\n", "T", "h", "e", "n", " ", "c",
      "o", "l", "u", "m", "n", " ", "i", "d", " ", "u", "n", "i", "q", "u", "e">>,
    <<"S", "c", "e", "n", "a", "r", "i", "o", ":", " ", "T", " ", "U", "\n", "W", "h",
      "e", "n", " ", "j", "o", "i", "n", " ", "o", "\n", "A", "n", "d", " ", "g", "r",
      "o", "u", "p", "\n", "T", "h", "e", "n", " ", "b", "e", " ", "5", " ", "r", "o",
      "w", "s">>,
    <<"G", "i", "v", "e", "n", " ", "z">> }
SessionTexts ==
    {Join(bs) : bs \in UNION {[1..k -> SessionBlocks] : k \in 0..MaxSessionBlocks}}

\* scenarios = parse_gherkin(gherkin_input), for every text of the text area
ParsedTexts == [gherkin_input \in SessionTexts |-> ParseGherkinOf(gherkin_input)]

SourceTables == {
    <<"r", "a", "w", "_", "t", "a", "b", "l", "e">>,
    <<"s", "r", "c">> }

\* what the loop generates for every value of the three widgets
Generated ==
    [gherkin_input \in SessionTexts, model_name \in ModelNames, source_table \in SourceTables |->
        [tests |-> GeneratedTests(ParsedTexts[gherkin_input], model_name),
         models |-> GeneratedModels(ParsedTexts[gherkin_input], model_name, source_table)]]

\* the button "Parse & Generate" is clicked with the widgets holding
\* gherkin_input, model_name and source_table
ParseAndGenerate ==
    /\ session # None
    /\ \E gherkin_input \in SessionTexts, model_name \in ModelNames,
          source_table \in SourceTables :
           LET scs == ParsedTexts[gherkin_input]
               st == [session EXCEPT !.gherkin_input = gherkin_input,
                                     !.model_name = model_name,
                                     !.source_table = source_table,
                                     !.clicked = "parse"]
               made == Generated[gherkin_input, model_name, source_table]
           IN session' = IF scs # <<>> THEN AfterParse(st, scs, made.tests, made.models)
                         ELSE AfterFailedParse(st)
    /\ UNCHANGED <<parseVars, inferVars, genVars>>
    /\ UNCHANGED <<threads, executor, unit_coverage, report, batch, app_scenarios>>

\* the button "Clear All" is clicked
ClearAll ==
    /\ session # None
    /\ session' = Cleared([session EXCEPT !.clicked = "clear"])
    /\ UNCHANGED <<parseVars, inferVars, genVars>>
    /\ UNCHANGED <<threads, executor, unit_coverage, report, batch, app_scenarios>>

\* the first run of the script: the three entries are created empty
SessionInit ==
    /\ \E gherkin_input \in SessionTexts, model_name \in ModelNames,
          source_table \in SourceTables :
           session = [gherkin_input |-> gherkin_input, model_name |-> model_name,
                      source_table |-> source_table, clicked |-> "none",
                      gherkin_scenarios |-> <<>>, generated_tests |-> <<>>,
                      generated_models |-> <<>>]
    /\ feature_text = <<>>
    /\ pc = "session"
    /\ lines = <<>>
    /\ i = 1
    /\ feature = NewFeature
    /\ current_scenario = None
    /\ returned = <<>>
    /\ calls_left = 0
    /\ columns = <<>>
    /\ col_names = <<>>
    /\ key_info = None
    /\ tests_config = <<>>
    /\ model_sql = <<>>
    /\ sql_columns = <<>>
    /\ GenIdle
    /\ threads = <<>>
    /\ executor = None
    /\ unit_coverage = None
    /\ report = None
    /\ batch = None
    /\ app_scenarios = None

SessionNext ==
    \/ ParseAndGenerate
    \/ ClearAll

SessionSpec == SessionInit /\ [][SessionNext]_vars

(***************************************************************************)
(* DBTTestGenerator.generate_unit_test_with_coverage (gherkin dsl and      *)
(* coverage).                                                              *)
(***************************************************************************)
\* ['id', 'created_at', 'updated_at', 'status', 'value']
DefaultColumns == <<
    <<"i", "d">>,
    <<"c", "r", "e", "a", "t", "e", "d", "_", "a", "t">>,
    <<"u", "p", "d", "a", "t", "e", "d", "_", "a", "t">>,
    <<"s", "t", "a", "t", "u", "s">>,
    <<"v", "a", "l", "u", "e">> >>

\* (variant) an empty list of columns is kept as it is
KeptEmpty(cols) == cols

\* "if not columns: columns = [the five default columns]"
Defaulted(cols) == IF cols = <<>> THEN DefaultColumns ELSE cols

\* generate_comprehensive_unit_test(model_name, model_sql): the columns the
\* text is written for; the set of the columns is listed in the same order by
\* every call within one process
ComprehensiveUnitTest(model_name, cols) ==
    [model_name |-> model_name, columns |-> Defaulted(cols)]

\* the dict returned; coverage_metadata is kept as the numbers and names
\* written into it, test_count being the "Total Test Count" line that only
\* the gherkin dsl writes
UnitCoverage(model_name, cols, test_count) ==
    LET model_columns == Defaulted(cols)
        tested_columns == model_columns
        untested_columns == <<>>
    IN [unit_test |-> ComprehensiveUnitTest(model_name, cols),
        coverage_metadata |-> [model_name |-> model_name,
                               total_columns |-> Len(model_columns),
                               tested_columns |-> Len(tested_columns),
                               columns_tested |-> JoinWith(tested_columns, <<",", " ">>),
                               test_count |-> test_count],
        tested_columns |-> tested_columns,
        untested_columns |-> untested_columns,
        coverage_percentage |-> 100]

\* generate_unit_test_with_coverage(feature, model_name, model_sql), gherkin
\* dsl: _extract_all_columns(feature) is called and its result is not used
GenerateUnitTestWithCoverageDsl ==
    /\ pc = "unit"
    /\ unit_coverage = None
    /\ \E model_name \in ModelNames, cols \in SqlResults(model_sql),
          unused \in {Truncate(q) : q \in ListOfSet(ColumnSet(feature))} :
           unit_coverage' =
               Some(UnitCoverage(model_name, cols, Some(Len(Defaulted(cols)) * 3)))
    /\ UNCHANGED <<parseVars, inferVars, genVars>>
    /\ UNCHANGED <<threads, executor, session, report, batch, app_scenarios>>

\* generate_unit_test_with_coverage(feature, model_name, model_sql), coverage
GenerateUnitTestWithCoverageCov ==
    /\ pc = "unit"
    /\ unit_coverage = None
    /\ \E model_name \in ModelNames, cols \in SqlResults(model_sql) :
           unit_coverage' = Some(UnitCoverage(model_name, cols, None))
    /\ UNCHANGED <<parseVars, inferVars, genVars>>
    /\ UNCHANGED <<threads, executor, session, report, batch, app_scenarios>>

\* the features given: without scenarios, and with one scenario that names
\* columns
UnitFeatures == {
    NewFeature,
    [NewFeature EXCEPT !.scenarios = <<
        [name |-> <<"S">>,
         given |-> <<<<"a", " ", "t", "a", "b", "l", "e", " ", "o", "r", "d", "e", "r", "s", " ", "w", "i", "t", "h", " ", "a", "m", "o", "u", "n", "t">>>>,
         when |-> <<>>,
         then |-> <<<<"c", "o", "l", "u", "m", "n", " ", "a", "m", "o", "u", "n", "t", " ", "s", "h", "o", "u", "l", "d", " ", "b", "e", " ", "u", "n", "i", "q", "u", "e">>>>] >>] }

\* the model SQL texts given
UnitSqlTexts == {ExampleSql} \cup SqlPlainTexts \cup {
    <<"s", "e", "l", "e", "c", "t", " ", "a", ",", " ", "b", " ", "f", "r", "o", "m",
      " ", "t">>,
    <<"s", "e", "l", "e", "c", "t", " ", "a", "m", "o", "u", "n", "t", " ", "f", "r",
      "o", "m", " ", "o", "r", "d", "e", "r", "s">>,
    <<"s", "e", "l", "e", "c", "t", " ", "x", " ", "a", "s", " ", "y", ",", " ", "z",
      " ", "f", "r", "o", "m", " ", "t">> }

UnitInit ==
    /\ feature \in UnitFeatures
    /\ model_sql \in UnitSqlTexts
    /\ pc = "unit"
    /\ unit_coverage = None
    /\ feature_text = <<>>
    /\ lines = <<>>
    /\ i = 1
    /\ current_scenario = None
    /\ returned = <<>>
    /\ calls_left = 0
    /\ columns = <<>>
    /\ col_names = <<>>
    /\ key_info = None
    /\ tests_config = <<>>
    /\ sql_columns = <<>>
    /\ GenIdle
    /\ threads = <<>>
    /\ executor = None
    /\ session = None
    /\ report = None
    /\ batch = None
    /\ app_scenarios = None

UnitNext ==
    \/ GenerateUnitTestWithCoverageDsl
    \/ GenerateUnitTestWithCoverageCov

UnitSpec == UnitInit /\ [][UnitNext]_vars

(***************************************************************************)
(* CodeCoverageAnalyzer.analyze_coverage and extract_tests_from_schema.    *)
(***************************************************************************)
MaxModels == 2

\* the sum of a sequence of numbers
RECURSIVE SumOf(_)
SumOf(q) == IF q = <<>> THEN 0 ELSE Head(q) + SumOf(Tail(q))

\* [c for c in q if c in S] and [c for c in q if c not in S]
RECURSIVE Filtered(_, _, _)
Filtered(q, S, wanted) ==
    IF q = <<>> THEN <<>>
    ELSE (IF (Head(q) \in S) = wanted THEN <<Head(q)>> ELSE <<>>)
         \o Filtered(Tail(q), S, wanted)

\* a dict from column name to list of test names, as the sequence of its
\* items in the order the keys were inserted
Keys(dict) == {dict[k].col : k \in 1..Len(dict)}

\* tests_by_column[col_name].append(test) for every test of one column: the
\* key is inserted by the first append
AppendTests(dict, col, tests) ==
    IF tests = <<>> THEN dict
    ELSE IF col \in Keys(dict)
    THEN [k \in 1..Len(dict) |->
             IF dict[k].col = col THEN [dict[k] EXCEPT !.tests = @ \o tests] ELSE dict[k]]
    ELSE Append(dict, [col |-> col, tests |-> tests])

RECURSIVE TestsByColumn(_, _)
TestsByColumn(cs, dict) ==
    IF cs = <<>> THEN dict
    ELSE TestsByColumn(Tail(cs), AppendTests(dict, Head(cs).name, Head(cs).tests))

\* extract_tests_from_schema(schema_yaml), the schema being given as the
\* models yaml.safe_load returns, with loads FALSE when loading or walking it
\* raises and {} is returned
ExtractTestsFromSchema(doc) ==
    IF ~doc.loads THEN <<>>
    ELSE TestsByColumn(Concat([k \in 1..Len(doc.models) |-> doc.models[k].columns]), <<>>)

\* (variant) the tests of the schema are taken for every model
ModelTestsOfAnyModel(model_name, generated_tests) ==
    ExtractTestsFromSchema(generated_tests.schema)

\* model_tests: the tests of the schema for the model the tests were
\* generated for, and {} for any other model
ModelTests(model_name, generated_tests) ==
    IF Some(model_name) = generated_tests.model_name
    THEN ExtractTestsFromSchema(generated_tests.schema)
    ELSE <<>>

KwNotNullTest == <<"n", "o", "t", "_", "n", "u", "l", "l">>

\* the branch of the if/elif chain that counts a test in the summary
SummaryKind(test) ==
    LET low == Lower(test)
    IN IF Contains(low, KwUnique) THEN "unique_tests"
       ELSE IF Contains(low, KwNotNullTest) THEN "not_null_tests"
       ELSE IF Contains(low, KwAcceptedValues) THEN "accepted_values_tests"
       ELSE IF Contains(low, KwRelationships) THEN "relationships_tests"
       ELSE "custom_tests"

\* the dict appended to models_detail for one model whose columns were
\* extracted as cols; a percentage is kept as <<numerator, denominator>>
ModelDetail(model, cols, generated_tests) ==
    LET model_tests == ModelTests(model.name, generated_tests)
        tested_columns == Len(Filtered(cols, Keys(model_tests), TRUE))
    IN [name |-> model.name,
        total_columns |-> Len(cols),
        tested_columns |-> tested_columns,
        coverage_percentage |-> IF cols # <<>> THEN <<tested_columns * 100, Len(cols)>>
                                ELSE <<0, 1>>,
        columns |-> cols,
        tested_columns_list |-> [k \in 1..Len(model_tests) |-> model_tests[k].col],
        untested_columns |-> Filtered(cols, Keys(model_tests), FALSE),
        tests |-> model_tests]

\* the tests of a model counted under one key of the summary
CountKind(model_tests, kind) ==
    SumOf([k \in 1..Len(model_tests) |->
              Cardinality({t \in 1..Len(model_tests[k].tests) :
                               SummaryKind(model_tests[k].tests[t]) = kind})])

\* coverage_report after the loop over models and the final division
CoverageReport(models, cols, generated_tests) ==
    LET detail == [k \in 1..Len(models) |-> ModelDetail(models[k], cols[k], generated_tests)]
        total_columns == SumOf([k \in 1..Len(models) |-> Len(cols[k])])
        columns_with_tests == SumOf([k \in 1..Len(models) |-> detail[k].tested_columns])
    IN [total_models |-> Len(models),
        models_with_tests |-> Cardinality({k \in 1..Len(models) : detail[k].tests # <<>>}),
        total_columns |-> total_columns,
        columns_with_tests |-> columns_with_tests,
        coverage_percentage |-> IF total_columns > 0
                                THEN <<columns_with_tests * 100, total_columns>>
                                ELSE <<0, 1>>,
        models_detail |-> detail,
        summary |-> [kind \in {"unique_tests", "not_null_tests", "accepted_values_tests",
                               "relationships_tests", "custom_tests"} |->
                        SumOf([k \in 1..Len(models) |-> CountKind(detail[k].tests, kind)])]]

\* the model SQL texts of the models analysed
ReportContents == {
    <<>>,
    <<"s", "e", "l", "e", "c", "t", " ", "i", "d", ",", " ", "n", "a", "m", "e", " ",
      "f", "r", "o", "m", " ", "t">>,
    <<"s", "e", "l", "e", "c", "t", " ", "a", "m", "o", "u", "n", "t", " ", "f", "r",
      "o", "m", " ", "o", "r", "d", "e", "r", "s">> }

\* extract_columns_from_model(model_sql) for every content
ColumnsOfContent == [content \in ReportContents |-> SqlResults(content)]

\* the models given: a name and a content each
ReportModels ==
    UNION {[1..n -> [name : ModelNames, content : ReportContents]] : n \in 0..MaxModels}

\* the schema documents given: one that cannot be loaded, one without models,
\* one with tests on id and name, one with tests on amount spread over two
\* models and a column without tests
SchemaDocs == {
    [loads |-> FALSE, models |-> <<>>],
    [loads |-> TRUE, models |-> <<>>],
    [loads |-> TRUE, models |-> <<[columns |-> <<[name |-> <<"i", "d">>, tests |-> <<<<"u", "n", "i", "q", "u", "e">>, <<"n", "o", "t", "_", "n", "u", "l", "l">>>>],
                     [name |-> <<"n", "a", "m", "e">>, tests |-> <<<<"a", "c", "c", "e", "p", "t", "e", "d", "_", "v", "a", "l", "u", "e", "s">>>>]>>]>>],
    [loads |-> TRUE, models |-> <<[columns |-> <<[name |-> <<"a", "m", "o", "u", "n", "t">>, tests |-> <<<<"p", "o", "s", "i", "t", "i", "v", "e">>>>],
                     [name |-> <<"i", "d">>, tests |-> <<>>]>>],
      [columns |-> <<[name |-> <<"a", "m", "o", "u", "n", "t">>, tests |-> <<<<"r", "e", "l", "a", "t", "i", "o", "n", "s", "h", "i", "p", "s">>>>]>>]>>] }

\* generated_tests: the model the tests were generated for, if any, and the schema
GeneratedTestsGiven ==
    [model_name : {None} \cup {Some(m) : m \in ModelNames}, schema : SchemaDocs]

\* analyze_coverage(models, generated_tests)
AnalyzeCoverage ==
    /\ report # None
    /\ report.coverage_report = None
    /\ \E cols \in [1..Len(report.models) -> UNION {ColumnsOfContent[c] : c \in ReportContents}] :
           /\ \A k \in 1..Len(report.models) :
                  cols[k] \in ColumnsOfContent[report.models[k].content]
           /\ report' = [report EXCEPT !.coverage_report =
                            Some(CoverageReport(report.models, cols, report.generated_tests))]
    /\ UNCHANGED <<parseVars, inferVars, genVars>>
    /\ UNCHANGED <<threads, executor, session, unit_coverage, batch, app_scenarios>>

ReportInit ==
    /\ \E models \in ReportModels, generated_tests \in GeneratedTestsGiven :
           report = [models |-> models, generated_tests |-> generated_tests,
                     coverage_report |-> None]
    /\ feature_text = <<>>
    /\ pc = "report"
    /\ lines = <<>>
    /\ i = 1
    /\ feature = NewFeature
    /\ current_scenario = None
    /\ returned = <<>>
    /\ calls_left = 0
    /\ columns = <<>>
    /\ col_names = <<>>
    /\ key_info = None
    /\ tests_config = <<>>
    /\ model_sql = <<>>
    /\ sql_columns = <<>>
    /\ GenIdle
    /\ threads = <<>>
    /\ executor = None
    /\ session = None
    /\ unit_coverage = None
    /\ batch = None
    /\ app_scenarios = None

ReportNext == AnalyzeCoverage

ReportSpec == ReportInit /\ [][ReportNext]_vars

(***************************************************************************)
(* DBTTestGenerator.generate_all_tests and generate_tests_for_model        *)
(* (snowflake).                                                            *)
(***************************************************************************)
MaxModelFiles == 2

KwAs == <<"a", "s">>

\* re.search(r'AS\s+(\w+)', col, re.IGNORECASE)
AliasMatch(col) == SearchGroupAfter(col, {KwAs}, FALSE, WordChars)

\* re.search(r'(\w+)(?:\s|$)', col): the leftmost run of word characters
\* that whitespace or the end of col follows
WordMatch(col) ==
    LET hits == {p \in 1..Len(col) :
                     /\ Run(col, p, WordChars) >= 1
                     /\ \/ p + Run(col, p, WordChars) > Len(col)
                        \/ col[p + Run(col, p, WordChars)] \in Whitespace}
    IN IF hits = {} THEN None
       ELSE LET p == CHOOSE p \in hits : \A q \in hits : p <= q
            IN Some(SubSeq(col, p, p + Run(col, p, WordChars) - 1))

\* the names one item of the select clause appends to columns
ColumnOfItem(item) ==
    LET col == Strip(item)
    IN IF AliasMatch(col) # None THEN <<Val(AliasMatch(col))>>
       ELSE IF WordMatch(col) # None THEN <<Val(WordMatch(col))>>
       ELSE <<>>

\* re.search(r'SELECT\s+(.*?)\s+FROM', content, re.IGNORECASE | re.DOTALL):
\* the group of the leftmost match, or None
SelectClause(content) ==
    LET found == FindAllSelect(content, 1)
    IN IF found = <<>> THEN None ELSE Some(found[1])

\* parse_sql_model(model_path)['columns'] for a file that holds content
ParseSqlColumns(content) ==
    IF SelectClause(content) = None THEN <<>>
    ELSE LET col_lines == Split(Val(SelectClause(content)), ",")
         IN Concat([k \in 1..Len(col_lines) |-> ColumnOfItem(col_lines[k])])

\* the three files save_tests writes for model_name, in the order written
TestFiles(model_name) ==
    <<[kind |-> "schema", model_name |-> model_name],
      [kind |-> "custom", model_name |-> model_name],
      [kind |-> "data_quality", model_name |-> model_name]>>

\* what the environment does to one call of generate_tests_for_model: nothing,
\* open() of the model raises, or the open() of the n-th test file raises
Failures == {"none", "read", "write1", "write2", "write3"}

\* the files one call writes before it returns or raises
Written(content, model_name, failure) ==
    IF failure = "read" \/ ParseSqlColumns(content) = <<>> THEN <<>>
    ELSE SubSeq(TestFiles(model_name), 1,
                CASE failure = "write1" -> 0
                  [] failure = "write2" -> 1
                  [] failure = "write3" -> 2
                  [] OTHER -> 3)

\* how one call ends: it raises, returns at "if not columns", or returns
\* after save_tests
Outcome(content, failure) ==
    IF failure = "read" THEN "raised"
    ELSE IF ParseSqlColumns(content) = <<>> THEN "skipped"
    ELSE IF failure = "none" THEN "generated"
    ELSE "raised"

\* (variant) without the try: the exception ends the loop
StopsWhenRaised(outcome) == outcome # "raised"

\* "except Exception as e: print(...)": the loop goes on to the next file
GoesOn(outcome) == TRUE

\* "if not model_files: print(...); return"
NoModelsFound ==
    /\ batch # None
    /\ ~batch.done
    /\ batch.model_files = <<>>
    /\ batch' = [batch EXCEPT !.done = TRUE,
                              !.printed = Append(@, [what |-> "no models", file |-> 0])]
    /\ UNCHANGED <<parseVars, inferVars, genVars>>
    /\ UNCHANGED <<threads, executor, session, unit_coverage, report, app_scenarios>>

\* one pass of "for model_file in model_files": generate_tests_for_model
\* inside try/except
ProcessModelFile ==
    /\ batch # None
    /\ ~batch.done
    /\ batch.next <= Len(batch.model_files)
    /\ \E failure \in Failures :
           LET file == batch.model_files[batch.next]
               outcome == Outcome(file.content, failure)
               wrote == Written(file.content, file.stem, failure)
           IN batch' = [batch EXCEPT
                  !.attempts = Append(@, [file |-> batch.next, outcome |-> outcome,
                                          wrote |-> wrote]),
                  !.files = @ \cup Range(wrote),
                  !.printed = IF outcome = "raised"
                              THEN Append(@, [what |-> "error", file |-> batch.next])
                              ELSE IF outcome = "skipped"
                              THEN Append(@, [what |-> "skipping", file |-> batch.next])
                              ELSE @,
                  !.next = IF GoesOn(outcome) THEN @ + 1 ELSE Len(batch.model_files) + 1]
    /\ UNCHANGED <<parseVars, inferVars, genVars>>
    /\ UNCHANGED <<threads, executor, session, unit_coverage, report, app_scenarios>>

\* the loop has ended: the closing messages are printed
Complete ==
    /\ batch # None
    /\ ~batch.done
    /\ batch.model_files # <<>>
    /\ batch.next > Len(batch.model_files)
    /\ batch' = [batch EXCEPT !.done = TRUE,
                              !.printed = Append(@, [what |-> "complete", file |-> 0])]
    /\ UNCHANGED <<parseVars, inferVars, genVars>>
    /\ UNCHANGED <<threads, executor, session, unit_coverage, report, app_scenarios>>

\* the model files under models/: a directory, a stem and a content each
ModelFilePool == {
    [dir |-> <<"a">>, stem |-> <<"m">>, content |-> <<"s", "e", "l", "e", "c", "t", " ", "i", "d", ",", " ", "n", "a", "m", "e", " ", "f", "r", "o", "m", " ", "t">>],
    [dir |-> <<"b">>, stem |-> <<"m">>, content |-> <<"s", "e", "l", "e", "c", "t", " ", "*", " ", "f", "r", "o", "m", " ", "t">>],
    [dir |-> <<>>, stem |-> <<"o", "r", "d", "e", "r", "s">>,
     content |-> <<"s", "e", "l", "e", "c", "t", " ", "s", "u", "m", "(", "a", "m", "o", "u", "n", "t", ")", " ", "a", "s", " ", "t", "o", "t", "a", "l", " ", "f", "r", "o", "m", " ", "o", "r", "d", "e", "r", "s">>],
    [dir |-> <<>>, stem |-> <<"e">>, content |-> <<>>] }

\* list(self.models_path.rglob(model_pattern)): every matching file once, in
\* the order the directories are read
ModelFileLists ==
    {fs \in UNION {[1..n -> ModelFilePool] : n \in 0..MaxModelFiles} :
         \A j, k \in 1..Len(fs) : j # k => fs[j] # fs[k]}

BatchInit ==
    /\ \E model_files \in ModelFileLists :
           batch = [model_files |-> model_files, next |-> 1, attempts |-> <<>>,
                    files |-> {}, printed |-> <<>>, done |-> FALSE]
    /\ feature_text = <<>>
    /\ pc = "batch"
    /\ lines = <<>>
    /\ i = 1
    /\ feature = NewFeature
    /\ current_scenario = None
    /\ returned = <<>>
    /\ calls_left = 0
    /\ columns = <<>>
    /\ col_names = <<>>
    /\ key_info = None
    /\ tests_config = <<>>
    /\ model_sql = <<>>
    /\ sql_columns = <<>>
    /\ GenIdle
    /\ threads = <<>>
    /\ executor = None
    /\ session = None
    /\ unit_coverage = None
    /\ report = None
    /\ app_scenarios = None

BatchNext ==
    \/ NoModelsFound
    \/ ProcessModelFile
    \/ Complete

BatchSpec == BatchInit /\ [][BatchNext]_vars

(***************************************************************************)
(* Vocabulary of the properties.                                           *)
(***************************************************************************)
IsPrefix(a, b) == Len(a) <= Len(b) /\ SubSeq(b, 1, Len(a)) = a

\* the lines of a text that, trimmed, start with a keyword
IsLineOf(l, kw) == StartsWith(Strip(l), kw)
ScenarioLinesOf(text) == SelectSeq(Split(text, "\n"), LAMBDA l : IsLineOf(l, KwScenario))
FeatureLinesOf(text) == SelectSeq(Split(text, "\n"), LAMBDA l : IsLineOf(l, KwFeature))

\* the loop is at a Given, When, Then or And line
ClauseKeywords == {KwGiven, KwWhen, KwThen, KwAnd}
AtClauseLine == InLoop /\ \E kw \in ClauseKeywords : StartsWith(Line, kw)
AtAndLine == InLoop /\ StartsWith(Line, KwAnd) /\ current_scenario # None

\* the text that follows the leading keyword of a line, trimmed
Remainder(line, kw) == Strip(SubSeq(line, Len(kw) + 1, Len(line)))

\* the clause keyword of the most recent Given, When or Then line among
\* ls[1..k], looking back no further than the line that opened the scenario
RECURSIVE LastClause(_, _)
LastClause(ls, k) ==
    IF k = 0 THEN "none"
    ELSE LET l == Strip(ls[k])
         IN IF StartsWith(l, KwScenario) THEN "none"
            ELSE IF StartsWith(l, KwGiven) THEN "given"
            ELSE IF StartsWith(l, KwWhen) THEN "when"
            ELSE IF StartsWith(l, KwThen) THEN "then"
            ELSE LastClause(ls, k - 1)

StatementCount(sc) == Len(sc.given) + Len(sc.when) + Len(sc.then)

(***************************************************************************)
(* C1: every returned feature has exactly one scenario per line of the     *)
(* text that, trimmed, starts with "Scenario:", in the order of those      *)
(* lines.                                                                  *)
(***************************************************************************)
C1_OneScenarioPerScenarioLine ==
    \A k \in 1..Len(returned) :
        LET sl == ScenarioLinesOf(feature_text)
            sc == returned[k].scenarios
        IN /\ Len(sc) = Len(sl)
           /\ \A j \in 1..Len(sc) : sc[j].name = Statement(sl[j], KwScenario)

\* a call returned two scenarios: one closed by the next "Scenario:" line,
\* one closed at end of input
C1_Witness ==
    /\ pc = "done"
    /\ Len(feature.scenarios) = 2
    /\ feature.scenarios[1].name # feature.scenarios[2].name

(***************************************************************************)
(* C2: an And line in an open scenario is appended to then if then is      *)
(* non-empty, else to when if when is non-empty, else to given if given    *)
(* is non-empty, and is dropped when all three are empty.                  *)
(***************************************************************************)
C2_AndPriority ==
    [][AtAndLine =>
          LET sc == Val(current_scenario)
              x == Statement(Line, KwAnd)
          IN /\ current_scenario' # None
             /\ Val(current_scenario') =
                    IF sc.then # <<>> THEN [sc EXCEPT !.then = Append(@, x)]
                    ELSE IF sc.when # <<>> THEN [sc EXCEPT !.when = Append(@, x)]
                    ELSE IF sc.given # <<>> THEN [sc EXCEPT !.given = Append(@, x)]
                    ELSE sc]_vars

\* a scenario with only a Given line followed by "And x"
C2_Witness ==
    /\ pc = "done"
    /\ Len(feature.scenarios) = 1
    /\ Len(feature.scenarios[1].given) = 2
    /\ feature.scenarios[1].given[2] = <<"x">>
    /\ feature.scenarios[1].when = <<>>
    /\ feature.scenarios[1].then = <<>>

(***************************************************************************)
(* C3: an And line is appended to the list of the clause keyword (Given,   *)
(* When or Then) whose line occurred most recently before it in the        *)
(* scenario, in whatever order the keyword lines came.                     *)
(***************************************************************************)
C3_AndContinuesLastClause ==
    [][(AtAndLine /\ LastClause(lines, i - 1) # "none") =>
          /\ current_scenario' # None
          /\ Val(current_scenario') =
                 LET sc == Val(current_scenario)
                     x == Statement(Line, KwAnd)
                 IN CASE LastClause(lines, i - 1) = "given" ->
                             [sc EXCEPT !.given = Append(@, x)]
                      [] LastClause(lines, i - 1) = "when" ->
                             [sc EXCEPT !.when = Append(@, x)]
                      [] LastClause(lines, i - 1) = "then" ->
                             [sc EXCEPT !.then = Append(@, x)]]_vars

(***************************************************************************)
(* C4 as stated: the returned name is the one of the first "Feature:"      *)
(* line of the text.                                                       *)
(***************************************************************************)
C4_FirstFeatureLineWins ==
    \A k \in 1..Len(returned) :
        LET fl == FeatureLinesOf(feature_text)
        IN fl # <<>> => returned[k].name = Remainder(Strip(fl[1]), KwFeature)

(***************************************************************************)
(* C4 as amended: the returned name is the one computed from the last      *)
(* "Feature:" line of the text; every such line overwrites the name.       *)
(***************************************************************************)
C4_LastFeatureLineWins ==
    \A k \in 1..Len(returned) :
        LET fl == FeatureLinesOf(feature_text)
        IN returned[k].name =
               IF fl = <<>> THEN <<>> ELSE Statement(fl[Len(fl)], KwFeature)

\* a text with two "Feature:" lines of different names was parsed
C4_Witness ==
    /\ pc = "done"
    /\ Len(FeatureLinesOf(feature_text)) >= 2
    /\ Statement(FeatureLinesOf(feature_text)[1], KwFeature) # feature.name

(***************************************************************************)
(* C5: the statement appended for a Given, When, Then or And line is the   *)
(* remainder of the line after the leading keyword, trimmed; a later       *)
(* occurrence of the keyword in the line is kept.                          *)
(***************************************************************************)
C5_StatementIsRemainder ==
    [][(AtClauseLine /\ current_scenario # None) =>
          \A kw \in ClauseKeywords :
              StartsWith(Line, kw) =>
                  LET sc == Val(current_scenario)
                      sn == Val(current_scenario')
                      r == Remainder(Line, kw)
                  IN /\ sn.given \in {sc.given, Append(sc.given, r)}
                     /\ sn.when \in {sc.when, Append(sc.when, r)}
                     /\ sn.then \in {sc.then, Append(sc.then, r)}]_vars

(***************************************************************************)
(* C6: the statement lists of a scenario are append-only during the        *)
(* parse: a step of the loop leaves each list as it is or appends the      *)
(* statement of the current line at its end, at most one list grows, and   *)
(* a scenario appended to the feature is never changed afterwards.         *)
(***************************************************************************)
C6_AppendOnly ==
    [][pc = "loop" =>
          /\ IsPrefix(feature.scenarios, feature'.scenarios)
          /\ (InLoop /\ current_scenario # None /\ ~StartsWith(Line, KwScenario)) =>
                 LET sc == Val(current_scenario)
                     sn == Val(current_scenario')
                     new == {Statement(Line, kw) : kw \in ClauseKeywords}
                 IN /\ sn.name = sc.name
                    /\ StatementCount(sn) <= StatementCount(sc) + 1
                    /\ sn.given = sc.given
                           \/ \E x \in new : sn.given = Append(sc.given, x)
                    /\ sn.when = sc.when
                           \/ \E x \in new : sn.when = Append(sc.when, x)
                    /\ sn.then = sc.then
                           \/ \E x \in new : sn.then = Append(sc.then, x)]_vars

\* a list holds two statements, in the order of their lines
C6_Witness ==
    /\ pc = "loop"
    /\ current_scenario # None
    /\ Len(Val(current_scenario).given) = 2
    /\ Val(current_scenario).given[1] # Val(current_scenario).given[2]

(***************************************************************************)
(* C7: a Given, When, Then or And line met while no scenario is open       *)
(* changes neither the feature nor the open-scenario state, and a          *)
(* scenario opened later starts with three empty lists.                    *)
(***************************************************************************)
C7_ClauseWithoutScenarioIsNoOp ==
    [][/\ (AtClauseLine /\ current_scenario = None) =>
              (feature' = feature /\ current_scenario' = None)
       /\ (InLoop /\ StartsWith(Line, KwScenario)) =>
              (/\ current_scenario' # None
               /\ StatementCount(Val(current_scenario')) = 0)]_vars

\* the loop has passed a clause line with no scenario open
C7_Witness ==
    /\ pc = "loop"
    /\ i = 2
    /\ \E kw \in ClauseKeywords : IsLineOf(lines[1], kw)
    /\ current_scenario = None
    /\ feature = NewFeature

(***************************************************************************)
(* C8: every call that is entered returns, and a text with no line         *)
(* starting with "Scenario:" yields an empty scenarios list.               *)
(***************************************************************************)
C8_TerminatesAndEmptyWithoutScenario ==
    (pc = "loop") ~>
        (/\ pc = "done"
         /\ Len(returned) = 1
         /\ ScenarioLinesOf(feature_text) = <<>> => returned[1].scenarios = <<>>)

\* a text of clause and comment lines only was parsed to the end
C8_Witness ==
    /\ pc = "done"
    /\ feature_text # <<>>
    /\ ScenarioLinesOf(feature_text) = <<>>
    /\ feature.scenarios = <<>>

(***************************************************************************)
(* C9: two calls on the same text return equal features.                   *)
(***************************************************************************)
C9_SameTextSameFeature ==
    \A j, k \in 1..Len(returned) : returned[j] = returned[k]

\* a second call returned a feature with scenarios
C9_Witness ==
    /\ Len(returned) >= 2
    /\ returned[2].scenarios # <<>>
    /\ returned[2].name # <<>>

(***************************************************************************)
(* C10: _extract_all_columns returns at most 5 entries, every entry is     *)
(* lower-case and no entry occurs twice.                                   *)
(***************************************************************************)
C10_AtMostFiveLowerCaseDistinct ==
    pc = "extracted" =>
        /\ Len(columns) <= 5
        /\ \A k \in 1..Len(columns) :
               \A c \in 1..Len(columns[k]) : columns[k][c] \notin Range(UpperLetters)
        /\ \A j, k \in 1..Len(columns) : j # k => columns[j] # columns[k]

\* more than 5 candidates, two of them differing only in letter case
C10_Witness ==
    /\ pc = "extracted"
    /\ Cardinality(Candidates(feature)) > 6
    /\ {<<"a", "b", "c">>, <<"A", "b", "c">>} \subseteq Candidates(feature)
    /\ Len(columns) = 5
    /\ <<"a", "b", "c">> \in Range(columns)

(***************************************************************************)
(* C11: _extract_all_columns returns the qualifying tokens in first-seen   *)
(* order of the scan (scenarios in order; given, when, then; clauses and   *)
(* words in order), cut to the first 5 distinct ones.                      *)
(***************************************************************************)
\* the words of a feature in the order the nested loops meet them
ScanWords(f) ==
    Concat([k \in 1..Len(f.scenarios) |->
               LET cl == f.scenarios[k].given \o f.scenarios[k].when \o f.scenarios[k].then
               IN Concat([j \in 1..Len(cl) |-> SplitWords(cl[j])])])

\* the lower-cased qualifying words, each kept where it is first met
RECURSIVE FirstSeen(_, _)
FirstSeen(ws, seen) ==
    IF ws = <<>> THEN <<>>
    ELSE LET w == Lower(Head(ws))
         IN IF IsIdentifier(Head(ws)) /\ Len(Head(ws)) > 2 /\ w \notin seen
            THEN <<w>> \o FirstSeen(Tail(ws), seen \cup {w})
            ELSE FirstSeen(Tail(ws), seen)

C11_FirstFiveInScanOrder ==
    pc = "extracted" =>
        LET fs == FirstSeen(ScanWords(feature), {})
        IN columns = SubSeq(fs, 1, IF Len(fs) < 5 THEN Len(fs) ELSE 5)

(***************************************************************************)
(* Vocabulary of the role properties.                                      *)
(***************************************************************************)
Classified == pc \in {"detected", "generated"}
Buckets(ki) ==
    <<ki.primary_keys, ki.foreign_keys, ki.date_columns, ki.amount_columns,
      ki.status_columns>>
BucketsHolding(col, ki) == {b \in 1..5 : col \in Range(Buckets(ki)[b])}

\* the word lists of the classification contract
ContractTemporalWords == {
    <<"d", "a", "t", "e">>,
    <<"t", "i", "m", "e">>,
    <<"t", "i", "m", "e", "s", "t", "a", "m", "p">>,
    <<"c", "r", "e", "a", "t", "e", "d">>,
    <<"u", "p", "d", "a", "t", "e", "d">>,
    <<"m", "o", "d", "i", "f", "i", "e", "d">> }
ContractAmountWords == {
    <<"a", "m", "o", "u", "n", "t">>,
    <<"p", "r", "i", "c", "e">>,
    <<"c", "o", "s", "t">>,
    <<"t", "o", "t", "a", "l">>,
    <<"s", "u", "m">>,
    <<"r", "e", "v", "e", "n", "u", "e">>,
    <<"v", "a", "l", "u", "e">>,
    <<"q", "u", "a", "n", "t", "i", "t", "y">>,
    <<"c", "o", "u", "n", "t">> }
ContractStatusWords == {
    <<"s", "t", "a", "t", "u", "s">>,
    <<"s", "t", "a", "t", "e">>,
    <<"t", "y", "p", "e">>,
    <<"c", "a", "t", "e", "g", "o", "r", "y">> }
HasWordOf(col, words) == \E w \in words : Contains(Lower(col), w)

(***************************************************************************)
(* C14: no column name is placed in more than one of the buckets of        *)
(* key_info, and customer_id is in the primary-key bucket and not in the   *)
(* foreign-key bucket.                                                     *)
(***************************************************************************)
C14_OneBucketPerColumn ==
    Classified =>
        \A k \in 1..Len(col_names) :
            /\ Cardinality(BucketsHolding(col_names[k], key_info)) <= 1
            /\ col_names[k] = <<"c", "u", "s", "t", "o", "m", "e", "r", "_", "i", "d">> =>
                   /\ col_names[k] \in Range(key_info.primary_keys)
                   /\ col_names[k] \notin Range(key_info.foreign_keys)

(***************************************************************************)
(* C15: the branch taken for customer_id is PrimaryKey, for fk_customer    *)
(* ForeignKey, for created_at Temporal, for order_amount Amount, for       *)
(* status Status, for description Plain; a name that matches none of the   *)
(* patterns takes the Plain branch.                                        *)
(***************************************************************************)
C15_PrecedenceExamples ==
    Classified =>
        \A k \in 1..Len(col_names) :
            LET c == col_names[k]
                r == Role(c, key_info)
            IN /\ c = <<"c", "u", "s", "t", "o", "m", "e", "r", "_", "i", "d">> => r = "PrimaryKey"
               /\ c = <<"f", "k", "_", "c", "u", "s", "t", "o", "m", "e", "r">> => r = "ForeignKey"
               /\ c = <<"c", "r", "e", "a", "t", "e", "d", "_", "a", "t">> => r = "Temporal"
               /\ c = <<"o", "r", "d", "e", "r", "_", "a", "m", "o", "u", "n", "t">> => r = "Amount"
               /\ c = <<"s", "t", "a", "t", "u", "s">> => r = "Status"
               /\ c = <<"d", "e", "s", "c", "r", "i", "p", "t", "i", "o", "n">> => r = "Plain"
               /\ (/\ Lower(c) \notin {<<"i", "d">>, <<"p", "k">>}
                   /\ ~EndsWith(Lower(c), <<"_", "i", "d">>)
                   /\ ~StartsWith(Lower(c), <<"f", "k", "_">>)
                   /\ ~HasWordOf(c, ContractTemporalWords)
                   /\ ~HasWordOf(c, ContractAmountWords)
                   /\ ~HasWordOf(c, ContractStatusWords)) => r = "Plain"

\* customer_id took the primary-key branch although the foreign-key bucket
\* holds it too, next to a column that fell through to Plain
C15_Witness ==
    /\ pc = "generated"
    /\ col_names = <<<<"c", "u", "s", "t", "o", "m", "e", "r", "_", "i", "d">>, <<"d", "e", "s", "c", "r", "i", "p", "t", "i", "o", "n">>>>
    /\ <<"c", "u", "s", "t", "o", "m", "e", "r", "_", "i", "d">> \in Range(key_info.foreign_keys)
    /\ tests_config[1].tests = <<NotNull, Unique>>
    /\ tests_config[2].tests = <<NotNull>>

(***************************************************************************)
(* C16: a column that is neither primary nor foreign key is Temporal       *)
(* whenever its lower-cased name contains date, time, timestamp, created,  *)
(* updated or modified.                                                    *)
(***************************************************************************)
C16_TemporalWords ==
    Classified =>
        \A k \in 1..Len(col_names) :
            LET c == col_names[k]
                r == Role(c, key_info)
            IN (r \notin {"PrimaryKey", "ForeignKey"} /\ HasWordOf(c, ContractTemporalWords))
                   => r = "Temporal"

(***************************************************************************)
(* C17: a column that is not primary key, foreign key or temporal is       *)
(* Amount whenever its lower-cased name contains amount, price, cost,      *)
(* total, sum, revenue, value, quantity or count.                          *)
(***************************************************************************)
C17_AmountWords ==
    Classified =>
        \A k \in 1..Len(col_names) :
            LET c == col_names[k]
                r == Role(c, key_info)
            IN (/\ r \notin {"PrimaryKey", "ForeignKey", "Temporal"}
                /\ HasWordOf(c, ContractAmountWords)) => r = "Amount"

ItemsOf(sql) ==
    LET groups == FindAllSelect(sql, 1)
    IN UNION {Range(Split(groups[k], ",")) : k \in 1..Len(groups)}

\* the whitespace-delimited tokens of an item once its comments are removed
TokensOf(item) == SplitWords(Strip(SubBlockComments(SubLineComments(item))))

\* the last whitespace-delimited token of every item that has one
LastTokens(sql) ==
    LET tokens == {TokensOf(item) : item \in ItemsOf(sql)} \ {<<>>}
    IN {ws[Len(ws)] : ws \in tokens}

StripParens(token) == StripChars(token, {"(", ")"})

IsReservedAnyCase(token) == Lower(token) \in ReservedWords

ExampleColumns == {
    <<"i", "d">>,
    <<"n", "a", "m", "e">>,
    <<"c", "r", "e", "a", "t", "e", "d", "_", "a", "t">> }

C20_NoReservedWordAnyCase ==
    pc = "sql_done" => \A k \in 1..Len(sql_columns) : ~IsReservedAnyCase(sql_columns[k])

(***************************************************************************)
(* Properties of the generators that read the Then statements.             *)
(***************************************************************************)
NotNullRule == Rule("not_null", <<>>)
UniqueRule == Rule("unique", <<>>)

\* the rules schema_yml attaches to column col, in the order of the entries
RulesFor(entries, col) ==
    Concat([k \in 1..Len(entries) |->
               IF entries[k].name = col THEN <<entries[k].test>> ELSE <<>>])

\* a generated schema lists column col with exactly the tests given
Attaches(schema, col, tests) ==
    \E k \in 1..Len(schema.columns) :
        schema.columns[k].name = col /\ schema.columns[k].tests = tests

ExampleGiven == <<
    <<"a", " ", "t", " ", "w", "i", "t", "h", " ", "i", "d">> >>
ExampleThen == <<
    <<"i", "d", " ", "s", "h", "o", "u", "l", "d", " ", "n", "o", "t", " ", "b", "e",
      " ", "n", "u", "l", "l">>,
    <<"i", "d", " ", "s", "h", "o", "u", "l", "d", " ", "b", "e", " ", "u", "n", "i",
      "q", "u", "e">> >>
ColumnId == <<"i", "d">>

\* C12: the example text parses to one scenario with given=["a t with id"] and
\* then=["id should not be null","id should be unique"], and each generator
\* run over it attaches the rules [not_null, unique] to column id
C12_EndToEndExample ==
    feature_text = ExampleText /\ pc = "done" =>
        /\ Len(Parsed.scenarios) = 1
        /\ Parsed.scenarios[1].given = ExampleGiven
        /\ Parsed.scenarios[1].then = ExampleThen
        /\ schema_yml # None =>
               RulesFor(Val(schema_yml), ColumnId) = <<NotNullRule, UniqueRule>>
        /\ dsl_schema # None => Attaches(Val(dsl_schema), ColumnId, <<NotNullRule, UniqueRule>>)
        /\ cov_schema # None => Attaches(Val(cov_schema), ColumnId, <<NotNullRule, UniqueRule>>)

\* a Then statement matches a pattern when it holds the keywords of the
\* pattern and the parts the rule is built from
MatchesNotNull(st) == Contains(Lower(st), KwNotNull) /\ ColMatch(st) # None
MatchesUnique(st) == Contains(Lower(st), KwUnique) /\ ColMatch(st) # None
MatchesRelationship(st) ==
    /\ \/ Contains(Lower(st), KwRelationship)
       \/ Contains(Lower(st), KwReferences)
    /\ ColMatch(st) # None
    /\ RefMatch(st) # None
MatchesAcceptedValues(st) ==
    /\ \/ Contains(Lower(st), KwAcceptedValues)
       \/ Contains(Lower(st), KwOneOf)
    /\ ColMatch(st) # None
MatchesGreaterThan(st) == ColMatch(st) # None /\ ValMatch(st) # None
MatchesNoDuplicates(st) == Contains(Lower(st), KwNoDuplicates) /\ ColMatch(st) # None
MatchesRowCount(st) ==
    /\ Contains(Lower(st), KwShouldBe)
    /\ Contains(Lower(st), KwRows)
    /\ CountMatch(st) # None

\* how many rules named name a list of rules holds
Emitted(rules, name) == Cardinality({k \in 1..Len(rules) : rules[k].rule = name})
\* how many conditions the validation section of sql_test holds
Conditions(sections) ==
    IF \E k \in 1..Len(sections) : sections[k].rule = "validation"
    THEN Len((CHOOSE r \in Range(sections) : r.rule = "validation").arg)
    ELSE 0

\* C13: every pattern is tested independently, so each generator emits one
\* rule for every pattern every Then statement of the scenario matches
C13_EveryMatchingPatternEmits ==
    schema_yml # None \/ sql_test # None =>
    \E k \in 1..Len(Parsed.scenarios) :
        LET sts == Parsed.scenarios[k].then
            idx == 1..Len(sts)
            tests == [j \in 1..Len(Val(schema_yml)) |-> Val(schema_yml)[j].test]
        IN /\ schema_yml # None =>
                  /\ Emitted(tests, "not_null") = Cardinality({j \in idx : MatchesNotNull(sts[j])})
                  /\ Emitted(tests, "unique") = Cardinality({j \in idx : MatchesUnique(sts[j])})
                  /\ Emitted(tests, "relationships")
                         = Cardinality({j \in idx : MatchesRelationship(sts[j])})
                  /\ Emitted(tests, "accepted_values")
                         = Cardinality({j \in idx : MatchesAcceptedValues(sts[j])})
           /\ sql_test # None =>
                  /\ Emitted(Val(sql_test), "row_count")
                         = Cardinality({j \in idx : MatchesRowCount(sts[j])})
                  /\ Conditions(Val(sql_test)) = Cardinality({j \in idx : MatchesGreaterThan(sts[j])})
                  /\ Emitted(Val(sql_test), "no_duplicates")
                         = Cardinality({j \in idx : MatchesNoDuplicates(sts[j])})

\* sql holds a span that r'select\s+(.*?)\s+from' matches: select, whitespace,
\* and further on whitespace followed by from, in any letter case
HasSelectFromSpan(sql) ==
    \E p \in 1..Len(sql) :
        /\ WordAt(sql, p, KwSelect)
        /\ p + Len(KwSelect) <= Len(sql)
        /\ sql[p + Len(KwSelect)] \in Whitespace
        /\ \E f \in (p + Len(KwSelect) + 2)..Len(sql) :
               /\ sql[f - 1] \in Whitespace
               /\ WordAt(sql, f, KwFrom)

\* C21: the call returns a list for every text (SqlResults is never empty: no
\* step of the call raises), the empty list for every text without a
\* select...from span, and never a list with the same name twice
C21_EmptyWithoutSpanAndNoDuplicates ==
    /\ pc = "sql" => SqlResults(model_sql) # {}
    /\ pc = "sql_done" =>
           /\ ~HasSelectFromSpan(model_sql) => sql_columns = <<>>
           /\ \A j, k \in 1..Len(sql_columns) : sql_columns[j] = sql_columns[k] => j = k

\* a text without a span has been processed, and so has a text that names the
\* same column in two items
C21_Witness ==
    /\ pc = "sql_done"
    /\ \/ model_sql # <<>> /\ ~HasSelectFromSpan(model_sql) /\ sql_columns = <<>>
       \/ Len(ColumnsAppended(model_sql)) > Len(sql_columns)

\* the statement names a relationship
MentionsRelationship(st) ==
    Contains(Lower(st), KwRelationship) \/ Contains(Lower(st), KwReferences)

\* the word that follows the first of the words to, from, in of a statement
WordFollowing(st) ==
    LET words == SplitWords(st)
        hits == {j \in 1..(Len(words) - 1) : Lower(words[j]) \in RefPattern}
        next == words[(CHOOSE j \in hits : \A h \in hits : j <= h) + 1]
    IN IF hits = {} THEN None ELSE Some(SubSeq(next, 1, Run(next, 1, WordChars)))

\* C22: the relationship rules of schema_yml are, in order, one for every
\* statement that names a relationship and a column and holds one of the words
\* to, from, in, each with the word that follows as its target; the other
\* rules of the statements are emitted all the same
C22_RelationshipTargetFollowsWord ==
    schema_yml # None =>
    \E k \in 1..Len(Parsed.scenarios) :
        LET sts == Parsed.scenarios[k].then
            idx == 1..Len(sts)
            tests == [j \in 1..Len(Val(schema_yml)) |-> Val(schema_yml)[j].test]
            targets == Concat([j \in 1..Len(tests) |->
                                  IF tests[j].rule = "relationships"
                                  THEN tests[j].arg ELSE <<>>])
            expected == Concat([j \in idx |->
                                   IF /\ MentionsRelationship(sts[j])
                                      /\ ColMatch(sts[j]) # None
                                      /\ WordFollowing(sts[j]) # None
                                   THEN WordFollowing(sts[j]) ELSE <<>>])
        IN /\ targets = expected
           /\ Emitted(tests, "not_null") = Cardinality({j \in idx : MatchesNotNull(sts[j])})
           /\ Emitted(tests, "unique") = Cardinality({j \in idx : MatchesUnique(sts[j])})
           /\ Emitted(tests, "accepted_values")
                  = Cardinality({j \in idx : MatchesAcceptedValues(sts[j])})

(***************************************************************************)
(* Properties of concurrent callers.                                       *)
(***************************************************************************)
\* the feature parse_feature returns when a call runs alone from line k on
RECURSIVE ParseFrom(_, _, _, _)
ParseFrom(ls, k, f, cs) ==
    IF k > Len(ls) THEN [f EXCEPT !.scenarios = CloseScenario(@, cs)]
    ELSE LET after == AfterLine(Strip(ls[k]), f, cs)
         IN ParseFrom(ls, k + 1, after.feature, after.current_scenario)

ParsedAlone(text) == ParseFrom(Split(Strip(text), "\n"), 1, NewFeature, None)

\* the lists _extract_all_columns may return for a feature when run alone
ColumnsAlone(f) == {Truncate(q) : q \in ListOfSet(ColumnSet(f))}

\* every finished caller holds the result of a call run alone on its own text
ResultsAsIfAlone ==
    \A t \in Callers :
        /\ threads[t].pc \in {"done", "extracted"} =>
               threads[t].result = Some(ParsedAlone(threads[t].text))
        /\ threads[t].pc = "extracted" =>
               threads[t].columns \in ColumnsAlone(ParsedAlone(threads[t].text))

\* no step changes the input of a caller, or an output already returned
InputsAndOutputsKept ==
    \A t \in Callers :
        /\ threads'[t].text = threads[t].text
        /\ threads[t].result # None => threads'[t].result = threads[t].result
        /\ threads[t].pc = "extracted" => threads'[t].columns = threads[t].columns

\* C23: under every interleaving of the steps of two callers, each caller gets
\* the result its call gives when it runs alone, and no step of one call
\* changes the input or the output of the other
C23_ConcurrentCallsIndependent == []ResultsAsIfAlone /\ [][InputsAndOutputsKept]_vars

\* one caller has its columns while the other, given another text, is still
\* inside its loop with a scenario open
C23_Witness ==
    \E t, u \in Callers :
        /\ threads # <<>>
        /\ t # u
        /\ threads[t].text # threads[u].text
        /\ threads[t].pc = "extracted"
        /\ threads[t].columns # <<>>
        /\ threads[u].pc = "loop"
        /\ threads[u].i > 1
        /\ threads[u].current_scenario # None

(***************************************************************************)
(* Properties of DBTTestExecutor.run_tests.                                *)
(***************************************************************************)
\* the three commands of run_tests in the order of the steps
StepsOf(model_name) == <<CmdCompile, CmdRun(model_name), CmdTest(model_name)>>

Succeeded(result) == result # None /\ Val(result).success

\* C24: the commands are issued in the order compile, run, test, each only
\* after the one before it succeeded; a step that was not reached stays None;
\* and once run_tests has returned, coverage is set exactly when the test
\* command was issued, whether or not it succeeded
C24_StepsInOrderUntilFirstFailure ==
    executor # None =>
        LET r == executor.results
            n == Len(executor.issued)
        IN /\ n <= 3
           /\ executor.issued = SubSeq(StepsOf(r.model_name), 1, n)
           /\ n >= 2 => Succeeded(r.compile)
           /\ n >= 3 => Succeeded(r.run)
           /\ r.compile # None <=> n >= 1
           /\ r.run # None <=> n >= 2
           /\ r.test # None <=> n >= 3
           /\ executor.pc = "returned" =>
                  /\ n >= 1
                  /\ r.coverage # None <=> n = 3
                  /\ n < 3 => ~Succeeded(IF n = 1 THEN r.compile ELSE r.run)
           /\ executor.pc # "returned" => r.coverage = None

\* run_tests returned after a test command that failed, with coverage set
C24_Witness ==
    /\ executor # None
    /\ executor.pc = "returned"
    /\ Len(executor.issued) = 3
    /\ ~Succeeded(executor.results.test)
    /\ executor.results.coverage # None
    /\ Val(executor.results.coverage).total_tests > 0

(***************************************************************************)
(* parse_gherkin against parse_feature.                                    *)
(***************************************************************************)
\* C27: on the same text parse_gherkin returns the list of scenarios that
\* parse_feature returns under 'scenarios': same names, same given, when and
\* then lists in the same order
C27_ParseGherkinEqualsParseFeature ==
    app_scenarios # None => Val(app_scenarios) = Parsed.scenarios

\* both parsers returned a scenario with a statement from a text that holds a
\* blank line or a line starting with '#'
C27_Witness ==
    /\ app_scenarios # None
    /\ \E k \in 1..Len(lines) : Skipped(Strip(lines[k]))
    /\ \E k \in 1..Len(Val(app_scenarios)) : Val(app_scenarios)[k].given # <<>>

(***************************************************************************)
(* Properties of the session of app.py.                                    *)
(***************************************************************************)
\* the keys scenario_0 .. scenario_(n-1)
ScenarioKeys(n) == {TestKey(k) : k \in 0..(n - 1)}

\* C25: generated_tests and generated_models have the keys scenario_0 ..
\* scenario_(n-1), n the number of gherkin_scenarios; every entry of
\* generated_tests has the keys schema, singular and data_test; and after
\* "Clear All" the three entries are empty
C25_SessionKeysAgree ==
    session # None =>
        LET n == Len(session.gherkin_scenarios)
        IN /\ DOMAIN session.generated_tests = ScenarioKeys(n)
           /\ DOMAIN session.generated_models = ScenarioKeys(n)
           /\ \A key \in DOMAIN session.generated_tests :
                  DOMAIN session.generated_tests[key] = {"schema", "singular", "data_test"}
           /\ session.clicked = "clear" =>
                  /\ session.gherkin_scenarios = <<>>
                  /\ session.generated_tests = <<>>
                  /\ session.generated_models = <<>>

\* a click of "Parse & Generate" left two scenarios in the session
C25_Witness ==
    /\ session # None
    /\ session.clicked = "parse"
    /\ Len(session.gherkin_scenarios) = 2
    /\ TestKey(1) \in DOMAIN session.generated_models

\* the three entries of st.session_state
SessionEntries(st) == <<st.gherkin_scenarios, st.generated_tests, st.generated_models>>

\* C26: a click of "Parse & Generate" on a text without scenarios leaves the
\* three entries as they were; a click on a text with scenarios leaves in
\* them what that text, model name and source table alone generate
C26_ParseReplacesOrLeaves ==
    [][(session # None /\ session'.clicked = "parse") =>
           LET scs == ParsedTexts[session'.gherkin_input]
               made == Generated[session'.gherkin_input, session'.model_name,
                                 session'.source_table]
           IN IF scs = <<>> THEN SessionEntries(session') = SessionEntries(session)
              ELSE SessionEntries(session') = <<scs, made.tests, made.models>>]_vars

\* a click on a text without scenarios while the session holds scenarios
C26_Witness ==
    /\ session # None
    /\ session.clicked = "parse"
    /\ ParseGherkinOf(session.gherkin_input) = <<>>
    /\ session.gherkin_scenarios # <<>>

(***************************************************************************)
(* Properties of generate_unit_test_with_coverage.                         *)
(***************************************************************************)
\* C28: the dict returned reports coverage_percentage 100.0 and no untested
\* column, and its tested_columns are the columns extracted from the model
\* SQL, or the five default columns when none is extracted, whatever the
\* feature says
C28_AlwaysFullCoverage ==
    unit_coverage # None =>
        LET r == Val(unit_coverage)
        IN /\ r.coverage_percentage = 100
           /\ r.untested_columns = <<>>
           /\ IF SqlColumnSet(model_sql) = {}
              THEN r.tested_columns = DefaultColumns
              ELSE /\ Range(r.tested_columns) = SqlColumnSet(model_sql)
                   /\ Len(r.tested_columns) = Cardinality(SqlColumnSet(model_sql))

\* full coverage is reported for a model with columns none of which the
\* feature names, while the feature names columns
C28_Witness ==
    /\ unit_coverage # None
    /\ ColumnSet(feature) # {}
    /\ SqlColumnSet(model_sql) # {}
    /\ ColumnSet(feature) \cap Range(Val(unit_coverage).tested_columns) = {}

(***************************************************************************)
(* Properties of analyze_coverage.                                         *)
(***************************************************************************)
\* C29: in the report, for every model tested_columns plus the number of
\* untested_columns is total_columns; columns_with_tests is the sum of the
\* tested_columns of the models and is at most total_columns; a model with
\* another name than generated_tests['model_name'] has no tested column;
\* and coverage_percentage is 0 when total_columns is 0
C29_ReportCountsAgree ==
    (report # None /\ report.coverage_report # None) =>
        LET r == Val(report.coverage_report)
            d == r.models_detail
        IN /\ Len(d) = Len(report.models)
           /\ \A k \in 1..Len(d) :
                  /\ d[k].tested_columns + Len(d[k].untested_columns) = d[k].total_columns
                  /\ Some(report.models[k].name) # report.generated_tests.model_name
                         => d[k].tested_columns = 0
           /\ r.columns_with_tests = SumOf([k \in 1..Len(d) |-> d[k].tested_columns])
           /\ r.columns_with_tests <= r.total_columns
           /\ r.total_columns = 0 => r.coverage_percentage[1] = 0

\* a report over two models with columns the schema tests: the model the
\* tests were generated for has a tested and an untested column, the other
\* model has the same columns and none tested
C29_Witness ==
    /\ report # None
    /\ report.coverage_report # None
    /\ LET d == Val(report.coverage_report).models_detail
       IN /\ Len(d) = 2
          /\ d[1].tested_columns = 2
          /\ d[2].tested_columns = 0
          /\ d[2].columns = d[1].columns

(***************************************************************************)
(* Properties of generate_all_tests.                                       *)
(***************************************************************************)
\* the calls of generate_tests_for_model that raised
RaisedAttempts == {k \in 1..Len(batch.attempts) : batch.attempts[k].outcome = "raised"}

\* the error messages printed
ErrorsPrinted == {k \in 1..Len(batch.printed) : batch.printed[k].what = "error"}

\* C30: the model files are attempted one by one in the order listed, and
\* once generate_all_tests has returned every one of them has been attempted
\* exactly once, also those after a call that raised; every call that raised
\* is reported; and a call for a model without detected columns writes no file
C30_EveryModelAttemptedOnce ==
    batch # None =>
        /\ \A k \in 1..Len(batch.attempts) : batch.attempts[k].file = k
        /\ Len(batch.attempts) <= Len(batch.model_files)
        /\ batch.done => Len(batch.attempts) = Len(batch.model_files)
        /\ Cardinality(ErrorsPrinted) = Cardinality(RaisedAttempts)
        /\ \A k \in RaisedAttempts :
               \E j \in ErrorsPrinted : batch.printed[j].file = batch.attempts[k].file
        /\ \A k \in 1..Len(batch.attempts) :
               ParseSqlColumns(batch.model_files[k].content) = <<>>
                   => batch.attempts[k].wrote = <<>>

\* generate_all_tests returned after a first call that raised with a file
\* already written and a second call that skipped a model without columns
C30_Witness ==
    /\ batch # None
    /\ batch.done
    /\ Len(batch.attempts) = 2
    /\ batch.attempts[1].outcome = "raised"
    /\ batch.attempts[1].wrote # <<>>
    /\ batch.attempts[2].outcome = "skipped"
    /\ batch.model_files[2].content # <<>>

====
